---- MODULE Spec2Model ----
(***************************************************************************)
(* Model of the torrent streaming proxy of movie-mag                       *)
(* (src/src/torrent-streaming/torrent-proxy.js, the live class at lines    *)
(* 365-619) together with the callers that drive it: the player's progress *)
(* reports (src/src/public/embedded-player.js) and the process-level       *)
(* exception handler of src/src/server.js.                                 *)
(*                                                                         *)
(* Strings the code parses or formats are sequences of one-character       *)
(* strings, so that parseInt, split, replace, extname and template         *)
(* formatting are computed rather than assumed.  JavaScript numbers are    *)
(* records [nan, v]; time is counted in whole seconds.                     *)
(***************************************************************************)
EXTENDS Integers, Sequences, FiniteSets, TLC

(***************************************************************************)
(* Bounds of the model.                                                    *)
(***************************************************************************)
\* request slots of the lifecycle specification
MaxReq == 2
\* number of runs of the cleanup interval that the clock may reach
MaxSweeps == 3
\* largest byte offset written into a generated Range header
MaxOffset == 12

\* register-admin requests
MaxReg == 3

(***************************************************************************)
(* Program constants, in seconds (the code writes them in milliseconds).   *)
(***************************************************************************)
\* torrent-proxy.js:454   setTimeout(..., 30000)
InfoTimeoutSec == 30
\* torrent-proxy.js:477   setTimeout(() => engine.destroy(), 10000)
InfoLingerSec == 10
\* torrent-proxy.js:602   setInterval(..., 5 * 60 * 1000)
SweepIntervalSec == 300
\* torrent-proxy.js:593   const maxAge = 10 * 60 * 1000
MaxAgeSec == 600

\* db.init: maxRetries, and retryDelay in seconds
DbMaxRetries == 10

DbRetryDelaySec == 5

(***************************************************************************)
(* JavaScript numbers: an integer or NaN.                                  *)
(***************************************************************************)
NaN == [nan |-> TRUE, v |-> 0]

Num(n) == [nan |-> FALSE, v |-> n]

\* a - b
JsSub(a, b) == IF a.nan \/ b.nan THEN NaN ELSE Num(a.v - b.v)

\* a + b
JsAdd(a, b) == IF a.nan \/ b.nan THEN NaN ELSE Num(a.v + b.v)

(***************************************************************************)
(* Characters and strings.                                                 *)
(***************************************************************************)
Digits == <<"0", "1", "2", "3", "4", "5", "6", "7", "8", "9">>

IsDigit(c) == \E i \in 1..10 : Digits[i] = c

DigitVal(c) == (CHOOSE i \in 1..10 : Digits[i] = c) - 1

Upper == <<"A", "B", "C", "D", "E", "F", "G", "H", "I", "J", "K", "L", "M",
           "N", "O", "P", "Q", "R", "S", "T", "U", "V", "W", "X", "Y", "Z">>

Lower == <<"a", "b", "c", "d", "e", "f", "g", "h", "i", "j", "k", "l", "m",
           "n", "o", "p", "q", "r", "s", "t", "u", "v", "w", "x", "y", "z">>

\* String.prototype.toLowerCase, one character
LowerChar(c) ==
    IF \E i \in 1..26 : Upper[i] = c
    THEN Lower[CHOOSE i \in 1..26 : Upper[i] = c]
    ELSE c

\* String.prototype.toLowerCase
ToLowerCase(s) == [i \in 1..Len(s) |-> LowerChar(s[i])]

\* whether t occurs in s at position i
MatchAt(s, t, i) ==
    /\ i >= 1
    /\ i + Len(t) - 1 <= Len(s)
    /\ \A j \in 1..Len(t) : s[i + j - 1] = t[j]

\* s.replace(t, '') : the first occurrence of t removed
ReplaceFirst(s, t) ==
    IF \E i \in 1..Len(s) : MatchAt(s, t, i)
    THEN LET i == CHOOSE k \in 1..Len(s) :
                    /\ MatchAt(s, t, k)
                    /\ \A j \in 1..(k - 1) : ~MatchAt(s, t, j)
         IN  SubSeq(s, 1, i - 1) \o SubSeq(s, i + Len(t), Len(s))
    ELSE s

\* positions of the separator c in s
SepPositions(s, c) == {i \in 1..Len(s) : s[i] = c}

\* s.split(c)[k - 1] for k >= 1; found is FALSE when the array has no such
\* element (the expression is then undefined in the code)
RECURSIVE SplitPart(_, _, _)
SplitPart(s, c, k) ==
    LET seps == SepPositions(s, c)
    IN  IF k = 1
        THEN [found |-> TRUE,
              str |-> IF seps = {} THEN s
                      ELSE SubSeq(s, 1, (CHOOSE i \in seps : \A j \in seps : i <= j) - 1)]
        ELSE IF seps = {} THEN [found |-> FALSE, str |-> <<>>]
        ELSE LET first == CHOOSE i \in seps : \A j \in seps : i <= j
             IN  SplitPart(SubSeq(s, first + 1, Len(s)), c, k - 1)

\* value of the longest run of leading decimal digits of s, given the value acc
\* read so far
RECURSIVE DigitsValue(_, _)
DigitsValue(s, acc) ==
    IF s = <<>> \/ ~IsDigit(Head(s)) THEN acc
    ELSE DigitsValue(Tail(s), acc * 10 + DigitVal(Head(s)))

\* s without its leading blanks
RECURSIVE TrimLeft(_)
TrimLeft(s) == IF s # <<>> /\ Head(s) = " " THEN TrimLeft(Tail(s)) ELSE s

\* parseInt(s, 10): leading blanks skipped, an optional sign, then the longest
\* run of digits; NaN when there is no digit
ParseInt(s) ==
    LET t == TrimLeft(s)
        neg == t # <<>> /\ Head(t) = "-"
        u == IF t # <<>> /\ Head(t) \in {"-", "+"} THEN Tail(t) ELSE t
    IN  IF u = <<>> \/ ~IsDigit(Head(u)) THEN NaN
        ELSE Num(IF neg THEN 0 - DigitsValue(u, 0) ELSE DigitsValue(u, 0))

\* decimal digits of a natural number
RECURSIVE NatToStr(_)
NatToStr(n) ==
    IF n < 10 THEN <<Digits[n + 1]>>
    ELSE NatToStr(n \div 10) \o <<Digits[(n % 10) + 1]>>

\* `${x}` for a JavaScript number x
NumToStr(x) ==
    IF x.nan THEN <<"N", "a", "N">>
    ELSE IF x.v < 0 THEN <<"-">> \o NatToStr(0 - x.v)
    ELSE NatToStr(x.v)

(***************************************************************************)
(* What the swarm holds: the files an engine exposes once it is ready.     *)
(***************************************************************************)
MagnetA == <<"a">>

MagnetB == <<"b">>

MagnetC == <<"c">>

MagnetD == <<"d">>

\* two more magnet strings of the torrent of MagnetA: its hash in upper case,
\* and with a tracker parameter appended
MagnetAUpper == <<"A">>

MagnetATracker == <<"a", "&", "t">>

KnownMagnets ==
    {MagnetA, MagnetAUpper, MagnetATracker, MagnetB, MagnetC, MagnetD}

\* engine.files of the engine opened on magnet m
EngineFiles(m) ==
    IF m \in {MagnetA, MagnetAUpper, MagnetATracker}
    THEN << [name |-> <<"m", ".", "m", "k", "v">>, length |-> 10],
            [name |-> <<"r", ".", "t", "x", "t">>, length |-> 3],
            [name |-> <<"s", ".", "M", "K", "V">>, length |-> 7] >>
    ELSE IF m = MagnetB
    THEN << [name |-> <<"t", ".", "w", "e", "b", "m">>, length |-> 8] >>
    ELSE IF m = MagnetD
    THEN << [name |-> <<"n", ".", "t", "x", "t">>, length |-> 5] >>
    ELSE << [name |-> <<"u", ".", "a", "v", "i">>, length |-> 4],
            [name |-> <<"v", ".", "m", "o", "v">>, length |-> 6],
            [name |-> <<"w", ".", "m", "4", "v">>, length |-> 2],
            [name |-> <<"x">>, length |-> 9],
            [name |-> <<"y", ".", "m", "p", "4", ".", "t", "x", "t">>, length |-> 1],
            [name |-> <<".", "m", "k", "v">>, length |-> 11],
            [name |-> <<"z", ".", "m", "p", "4">>, length |-> 1000] >>

\* engine.files[fileIndex] exists (fileIndex is a JavaScript number)
HasFile(m, fileIndex) ==
    /\ ~fileIndex.nan
    /\ fileIndex.v >= 0
    /\ fileIndex.v < Len(EngineFiles(m))

\* engine.files[fileIndex]
FileAt(m, fileIndex) == EngineFiles(m)[fileIndex.v + 1]

(***************************************************************************)
(* The stream handler's pure parts.                                        *)
(***************************************************************************)
\* path.extname(name): from the last dot of the base name, or '' when there is
\* no dot or the base name starts with its only dot
ExtName(name) ==
    LET slashes == {i \in 1..Len(name) : name[i] = "/"}
        base == IF slashes = {} THEN 1
                ELSE (CHOOSE i \in slashes : \A j \in slashes : j <= i) + 1
        dots == {i \in base..Len(name) : name[i] = "."}
        last == IF dots = {} THEN 0 ELSE CHOOSE i \in dots : \A j \in dots : j <= i
    IN  IF last = 0 \/ last = base THEN <<>>
        ELSE IF SubSeq(name, base, Len(name)) = <<".", ".">> THEN <<>>
        ELSE SubSeq(name, last, Len(name))

\* a content type that ignores the extension table
ContentTypeAlwaysMp4(ext) == "video/mp4"

\* contentTypes[ext] || 'video/mp4'
ContentTypeOf(ext) ==
    IF ext = <<".", "m", "p", "4">> THEN "video/mp4"
    ELSE IF ext = <<".", "m", "k", "v">> THEN "video/x-matroska"
    ELSE IF ext = <<".", "w", "e", "b", "m">> THEN "video/webm"
    ELSE IF ext = <<".", "a", "v", "i">> THEN "video/x-msvideo"
    ELSE IF ext = <<".", "m", "o", "v">> THEN "video/quicktime"
    ELSE "video/mp4"

BytesEq == <<"b", "y", "t", "e", "s", "=">>

\* const parts = range.replace(/bytes=/, '').split('-'); parseInt(parts[0], 10)
RangeStart(range) == ParseInt(SplitPart(ReplaceFirst(range, BytesEq), "-", 1).str)

\* an end that defaults to the file size instead of the last byte
RangeEndDefaultsToSize(range, fileSize) ==
    LET p == SplitPart(ReplaceFirst(range, BytesEq), "-", 2)
    IN  IF p.found /\ p.str # <<>> THEN ParseInt(p.str) ELSE Num(fileSize)

\* parts[1] ? parseInt(parts[1], 10) : fileSize - 1
RangeEnd(range, fileSize) ==
    LET p == SplitPart(ReplaceFirst(range, BytesEq), "-", 2)
    IN  IF p.found /\ p.str # <<>> THEN ParseInt(p.str) ELSE Num(fileSize - 1)

\* (end - start) + 1
ChunkSize(start, end) == JsAdd(JsSub(end, start), Num(1))

\* `bytes ${start}-${end}/${fileSize}`
ContentRange(start, end, fileSize) ==
    <<"b", "y", "t", "e", "s", " ">> \o NumToStr(start) \o <<"-">>
        \o NumToStr(end) \o <<"/">> \o NumToStr(Num(fileSize))

\* `${magnetHash}-${fileIndex}`
StreamId(magnetHash, fileIndex) == magnetHash \o <<"-">> \o NumToStr(fileIndex)

\* /\.(mp4|mkv|webm|avi|mov|m4v)$/i.test(name)
IsVideoName(name) ==
    \E e \in { <<".", "m", "p", "4">>, <<".", "m", "k", "v">>,
               <<".", "w", "e", "b", "m">>, <<".", "a", "v", "i">>,
               <<".", "m", "o", "v">>, <<".", "m", "4", "v">> } :
        /\ Len(name) >= Len(e)
        /\ ToLowerCase(SubSeq(name, Len(name) - Len(e) + 1, Len(name))) = e

\* a files array whose index is the position in the filtered list
InfoFilesByPosition(m) ==
    LET fs == SelectSeq(EngineFiles(m), LAMBDA f : IsVideoName(f.name))
    IN  [i \in 1..Len(fs) |->
            [name |-> fs[i].name, length |-> fs[i].length, index |-> i - 1]]

\* the files array of the info response
InfoFiles(m) ==
    LET fs == EngineFiles(m)
    IN  SelectSeq([i \in 1..Len(fs) |->
                      [name |-> fs[i].name, length |-> fs[i].length, index |-> i - 1]],
                  LAMBDA f : IsVideoName(f.name))

(***************************************************************************)
(* State.                                                                  *)
(***************************************************************************)
VARIABLES
    \* per request: its parameters, the engine it opened (torrentStream returns
    \* a new engine to every request), its response, read stream, timers
    req,
    \* this.activeEngines: streamId -> [engine, lastAccess]; an engine is named
    \* by the request that opened it
    activeEngines,
    \* Date.now(), in seconds
    now,
    \* the next run of the cleanup interval
    nextSweep,
    \* torrentStream(magnet) calls made so far, per magnet
    opens,
    \* the progress reports the player has posted so far, per magnet, each with
    \* the status of the response it received
    posted,
    \* the process has exited through the uncaughtException handler
    crashed,
    \* !!torrentStream: require('torrent-stream') succeeded at start-up
    available,
    \* the server process after a SIGTERM or SIGINT: "running", "closing"
    \* (server.close is waiting for the open connections), "exited"
    shutdown,
    \* the browser's EmbeddedPlayer
    player,
    \* the admin_users table and the register-admin requests in progress
    auth,
    \* db.init() of the server's start-up
    db,
    \* the user_watch_time table, the Redis cache and the watch-time and movie
    \* requests in progress
    watch,
    \* the users table and the requests on user-authenticated routes
    session,
    \* startServer of the main server
    startup,
    \* the player's debounced progress reports
    debounce

\* the variables of the main server and of the browser
appVars == <<shutdown, player, auth, db>>

\* the variables of the torrent proxy
proxyVars ==
    <<req, activeEngines, now, nextSweep, opens, posted, crashed, available>>

\* the variables of the main server's routes and start-up and of the
\* player's progress reports
siteVars == <<watch, session, startup, debounce>>

vars == <<proxyVars, appVars, siteVars>>

\* the process is alive
Running == ~crashed /\ shutdown # "exited"

\* the main server, through which the browser reaches the proxy, accepts
\* connections
Accepting == shutdown = "running"

Reqs == 1..MaxReq

\* the last instant of the clock
MaxTime == SweepIntervalSec * MaxSweeps

NoTimer == 0 - 1

NoResponse ==
    [status |-> 0, contentRange |-> <<>>, contentLength |-> NaN,
     contentType |-> "", acceptRanges |-> FALSE, files |-> <<>>]

NoStream == [open |-> FALSE, start |-> NaN, end |-> NaN]

\* param: req.params.fileIndex as sent (<<>>: the URL has no such segment);
\* ended: the response has been ended; readError: the read stream has failed
FreeSlot ==
    [kind |-> "none", magnet |-> <<>>, param |-> <<>>, fileIndex |-> NaN,
     range |-> <<>>,
     eng |-> "none", errored |-> FALSE, destroyed |-> FALSE,
     res |-> NoResponse, ended |-> FALSE, rs |-> NoStream, readError |-> FALSE,
     conn |-> "open", closeListener |-> FALSE,
     timeout |-> NoTimer, linger |-> NoTimer]

\* a response sent whole with res.json or res.send
Answer(status) == [NoResponse EXCEPT !.status = status]

\* res.headersSent
HeadersSent(r) == req[r].res.status # 0

\* the lowest free request slot
NextSlot(r) ==
    /\ req[r].kind = "none"
    /\ \A q \in 1..(r - 1) : req[q].kind # "none"

\* requests arrive while the clock can still reach the timers they arm
Arrivable == now + InfoTimeoutSec + InfoLingerSec <= MaxTime

\* the player before a movie is opened.  phase: "idle", "fetching" (the info
\* fetch is pending), "server" (setupServerStream has run), "webtorrent"
\* (tryWebTorrentStreaming has run), "error" (showError); slot: the request
\* slot of the info fetch; direct: the status the main server's proxy
\* middleware answered itself; abortAt: the 10 s abort timer; error: why the
\* server-side attempt threw; video: the slot of the video element's request
IdlePlayer ==
    [phase |-> "idle", magnet |-> <<>>, slot |-> 0, direct |-> 0,
     abortAt |-> NoTimer, error |-> "none", fileIndex |-> NaN,
     setups |-> 0, webtorrents |-> 0, video |-> 0]

\* the watch-time and movie requests in progress at once
MaxWatchReq == 3

WatchReqs == 1..MaxWatchReq

\* the ids of the users whose tokens the requests carry (req.user.id)
WatchUsers == {1, 2}

\* the id of the movie in the movies table
MovieId == 1

\* no row of user_watch_time for a user and the movie
NoRow == [present |-> FALSE, secs |-> 0, total |-> 0, completed |-> FALSE]

\* Math.round((watchTimeSeconds / totalDurationSeconds) * 100) for
\* non-negative seconds and a positive duration
RoundPercent(secs, total) == (200 * secs + total) \div (2 * total)

\* the watchTime object of a watch-time response (present: not null)
WatchTimeOf(row) ==
    IF ~row.present
    THEN [present |-> FALSE, secs |-> 0, total |-> 0, completed |-> FALSE,
          progress |-> 0]
    ELSE [present |-> TRUE, secs |-> row.secs, total |-> row.total,
          completed |-> row.completed,
          progress |-> IF row.total # 0
                       THEN RoundPercent(row.secs, row.total) ELSE 0]

\* the watchProgress of GET /api/movies/:id, null for no row and for
\* watch_time_seconds 0
WatchProgressOf(row) ==
    IF row.present /\ row.secs # 0 THEN WatchTimeOf(row) ELSE WatchTimeOf(NoRow)

\* the Redis keys `watch_time:${userId}:${movieId}` and `movie:${id}`
WatchTimeKey(u) == <<"watch_time", u, MovieId>>

MovieKey == <<"movie", MovieId>>

CacheKeys == {WatchTimeKey(u) : u \in WatchUsers} \cup {MovieKey}

\* a request slot of the watch-time and movie routes.  pc: the await the
\* handler is at; body: the request's body; row: the row the handler has
\* read; quiet: no write of the same user's watch time has been in progress
\* since the request arrived
NoWatchReq ==
    [kind |-> "none", user |-> 0, pc |-> "none",
     body |-> [movieId |-> 0, hasSecs |-> FALSE, secs |-> 0, total |-> 0],
     row |-> NoRow, status |-> 0, watchTime |-> WatchTimeOf(NoRow),
     quiet |-> FALSE]

\* no watch-time or movie request yet: no rows, an empty cache (a cached
\* response is kept as a one-element sequence)
NoWatch ==
    [table |-> [u \in WatchUsers |-> NoRow],
     cache |-> [k \in CacheKeys |-> <<>>],
     req |-> [a \in WatchReqs |-> NoWatchReq]]

\* the requests on user-authenticated routes in progress at once
MaxAuthReq == 2

AuthReqs == 1..MaxAuthReq

\* no request on a user-authenticated route yet.  users: the users table by
\* id ("none": never inserted, "active", "inactive", "deleted"); tokens: the
\* tokens signed so far; expired: those older than 24 h; req: per request
\* the token it carries, the await userAuth is at, whether next() has run
\* the route handler, and the status of a response of userAuth
NoSession ==
    [users |-> [u \in WatchUsers |-> "none"],
     tokens |-> {},
     expired |-> {},
     req |-> [s \in AuthReqs |->
                 [token |-> [userId |-> 0, role |-> "none", signed |-> FALSE],
                  pc |-> "none", handler |-> FALSE, status |-> 0]]]

\* startServer before db.init() has settled.  main: the main server ("none",
\* "called": app.listen has been called, "listening"); proxy: the torrent
\* proxy ("none", "called": its listen has been called, "listening",
\* "failed": startTorrentProxy has rejected and the failure was logged);
\* exit: the code process.exit was called with, -1 while the process runs
NoStartup == [main |-> "none", proxy |-> "none", exit |-> 0 - 1]

\* the calls of sendWatchProgressDebounced in one run
MaxCalls == 3

\* the delay of the progress timer
DebounceSec == 5

\* the player with a movie open and no progress passed to the debouncer yet.
\* open: closePlayer has not run since the movie was opened; timers: the
\* pending timers by id, each with its deadline and the progress its callback
\* captured; handle: this.progressUpdateTimeout (0: undefined); calls: the
\* ids handed out; last, lastAt: the value and time of the latest call;
\* sent: the progress POSTs sent, with the time of sending
NoDebounce ==
    [open |-> TRUE, timers |-> {}, handle |-> 0, calls |-> 0,
     last |-> NaN, lastAt |-> 0, sent |-> {}]

\* the register-admin requests
Regs == 1..MaxReg

\* a register-admin request not yet received; existed: its SELECT COUNT(*)
\* found an admin
NoReg == [phase |-> "none", username |-> <<>>, existed |-> FALSE, status |-> 0]

\* an empty admin_users table (the usernames of its rows) and no request
NoAuth == [admins |-> {}, reg |-> [a \in Regs |-> NoReg]]

\* before db.init() is called.  impl: the module that ./db/db resolves to,
\* "single" for src/db/db.js and "retry" for the copy with the retry loop;
\* attempt: the loop counter; did: the steps of this attempt that succeeded;
\* error: the step whose error was caught last; t: seconds since the call;
\* startedAt: t at the start of this attempt; leaked: clients taken from the
\* pool and not released
NoDb ==
    [impl |-> "none", phase |-> "idle", attempt |-> 0, did |-> {},
     error |-> "none", t |-> 0, startedAt |-> 0, leaked |-> 0]

Init ==
    /\ req = [r \in Reqs |-> FreeSlot]
    /\ activeEngines = [k \in {} |-> [engine |-> 0, lastAccess |-> 0]]
    /\ now = 0
    /\ nextSweep = SweepIntervalSec
    /\ opens = [m \in KnownMagnets |-> 0]
    /\ posted = [m \in KnownMagnets |-> {}]
    /\ crashed = FALSE
    /\ available \in BOOLEAN
    /\ shutdown = "running"
    /\ player = IdlePlayer
    /\ auth = NoAuth
    /\ db = NoDb
    /\ watch = NoWatch
    /\ session = NoSession
    /\ startup = NoStartup
    /\ debounce = NoDebounce

(***************************************************************************)
(* GET /api/torrent/info/:magnetHash                                       *)
(***************************************************************************)
\* the request for magnet m reaches the service in slot r
InfoArrives(r, m) ==
    IF ~available
    THEN \* the catch-all registered in place of the route
         /\ req' = [req EXCEPT ![r] =
                       [FreeSlot EXCEPT !.kind = "info", !.magnet = m,
                                        !.res = Answer(503),
                                        !.ended = TRUE]]
         /\ UNCHANGED opens
    ELSE /\ req' = [req EXCEPT ![r] =
                       [FreeSlot EXCEPT !.kind = "info", !.magnet = m,
                                        !.eng = "opening",
                                        !.timeout = now + InfoTimeoutSec]]
         /\ opens' = [opens EXCEPT ![m] = @ + 1]

\* a client requests the file list of one of the given magnets
InfoRequest(r, magnets) ==
    /\ Running
    /\ Accepting
    /\ NextSlot(r)
    /\ Arrivable
    /\ \E m \in magnets : InfoArrives(r, m)
    /\ UNCHANGED <<activeEngines, now, nextSweep, posted, crashed, available, appVars, siteVars>>

\* the 30 s timer of an info request
InfoTimeout(r) ==
    /\ Running
    /\ req[r].kind = "info"
    /\ req[r].timeout = now
    /\ req' = [req EXCEPT ![r] =
                  IF ~HeadersSent(r)
                  THEN [@ EXCEPT !.timeout = NoTimer,
                                 !.res = Answer(408),
                                 !.ended = TRUE,
                                 !.destroyed = TRUE]
                  ELSE [@ EXCEPT !.timeout = NoTimer]]
    /\ UNCHANGED <<activeEngines, now, nextSweep, opens, posted, crashed, available, appVars, siteVars>>

\* a ready handler whose late response would replace the one already sent
InfoReadyAnswersAgain(r) ==
    /\ Running
    /\ req[r].kind = "info"
    /\ req[r].eng = "opening"
    /\ ~req[r].destroyed
    /\ req' = [req EXCEPT ![r] =
                  [@ EXCEPT !.eng = "ready",
                            !.timeout = NoTimer,
                            !.res = [Answer(200) EXCEPT
                                        !.files = InfoFiles(req[r].magnet)],
                            !.ended = TRUE,
                            !.linger = now + InfoLingerSec]]
    /\ UNCHANGED <<activeEngines, now, nextSweep, opens, posted, crashed, available, appVars, siteVars>>

\* engine.on('ready') of an info request
InfoReady(r) ==
    /\ Running
    /\ req[r].kind = "info"
    /\ req[r].eng = "opening"
    /\ ~req[r].destroyed
    /\ IF HeadersSent(r)
       THEN \* res.json throws ERR_HTTP_HEADERS_SENT after clearTimeout
            /\ req' = [req EXCEPT ![r].timeout = NoTimer]
            /\ crashed' = TRUE
       ELSE /\ req' = [req EXCEPT ![r] =
                          [@ EXCEPT !.eng = "ready",
                                    !.timeout = NoTimer,
                                    !.res = [Answer(200) EXCEPT
                                                !.files = InfoFiles(req[r].magnet)],
                                    !.ended = TRUE,
                                    !.linger = now + InfoLingerSec]]
            /\ UNCHANGED crashed
    /\ UNCHANGED <<activeEngines, now, nextSweep, opens, posted, available, appVars, siteVars>>

\* the 10 s timer set by the ready handler of an info request
InfoLinger(r) ==
    /\ Running
    /\ req[r].kind = "info"
    /\ req[r].linger = now
    /\ req' = [req EXCEPT ![r].linger = NoTimer, ![r].destroyed = TRUE]
    /\ UNCHANGED <<activeEngines, now, nextSweep, opens, posted, crashed, available, appVars, siteVars>>

\* engine.on('error') of an info request, before the engine is ready
InfoError(r) ==
    /\ Running
    /\ req[r].kind = "info"
    /\ req[r].eng = "opening"
    /\ ~req[r].destroyed
    /\ ~req[r].errored
    /\ req' = [req EXCEPT ![r] =
                  [@ EXCEPT !.errored = TRUE,
                            !.timeout = NoTimer,
                            !.res = IF HeadersSent(r) THEN @ ELSE Answer(500),
                            !.ended = IF HeadersSent(r) THEN @ ELSE TRUE]]
    /\ UNCHANGED <<activeEngines, now, nextSweep, opens, posted, crashed, available, appVars, siteVars>>

(***************************************************************************)
(* GET /api/torrent/stream/:magnetHash/:fileIndex                          *)
(***************************************************************************)
\* a request arrives with one of the given magnets, fileIndex parameters
\* (<<>>: the URL ends after the magnet) and Range headers.  Without
\* torrent-stream the catch-all answers it; without a fileIndex segment the
\* URL matches no route and Express answers 404; otherwise the handler runs
\* parseInt(req.params.fileIndex) and torrentStream(magnetHash)
\* the request reaches the service in slot r
StreamArrives(r, m, fileIndexParam, range) ==
    IF ~available \/ fileIndexParam = <<>>
    THEN /\ req' = [req EXCEPT ![r] =
                       [FreeSlot EXCEPT
                           !.kind = "stream", !.magnet = m,
                           !.param = fileIndexParam,
                           !.range = range,
                           !.res = Answer(IF ~available THEN 503 ELSE 404),
                           !.ended = TRUE]]
         /\ UNCHANGED opens
    ELSE /\ req' = [req EXCEPT ![r] =
                       [FreeSlot EXCEPT
                           !.kind = "stream", !.magnet = m,
                           !.param = fileIndexParam,
                           !.fileIndex = ParseInt(fileIndexParam),
                           !.range = range,
                           !.eng = "opening"]]
         /\ opens' = [opens EXCEPT ![m] = @ + 1]

\* a client requests a file of one of the given magnets
StreamRequest(r, magnets, fileIndexParams, ranges) ==
    /\ Running
    /\ Accepting
    /\ NextSlot(r)
    /\ Arrivable
    /\ \E m \in magnets, fileIndexParam \in fileIndexParams, range \in ranges :
           StreamArrives(r, m, fileIndexParam, range)
    /\ UNCHANGED <<activeEngines, now, nextSweep, posted, crashed, available, appVars, siteVars>>

\* the response of the ready handler for an existing file: 206 for a truthy
\* Range header, 200 otherwise
StreamResponse(file, range) ==
    LET fileSize == file.length
        contentType == ContentTypeOf(ToLowerCase(ExtName(file.name)))
        start == RangeStart(range)
        end == RangeEnd(range, fileSize)
    IN  IF range # <<>>
        THEN [status |-> 206,
              contentRange |-> ContentRange(start, end, fileSize),
              contentLength |-> ChunkSize(start, end),
              contentType |-> contentType,
              acceptRanges |-> TRUE,
              files |-> <<>>]
        ELSE [status |-> 200,
              contentRange |-> <<>>,
              contentLength |-> Num(fileSize),
              contentType |-> contentType,
              acceptRanges |-> TRUE,
              files |-> <<>>]

\* file.createReadStream({ start, end }) for a truthy Range header,
\* file.createReadStream() otherwise
StreamRead(file, range) ==
    IF range # <<>>
    THEN [open |-> TRUE, start |-> RangeStart(range),
          end |-> RangeEnd(range, file.length)]
    ELSE [open |-> TRUE, start |-> Num(0), end |-> Num(file.length - 1)]

\* this.activeEngines.set(streamId, { engine, lastAccess: Date.now() })
MapSet(map, streamId, engine, t) ==
    [k \in DOMAIN map \cup {streamId} |->
        IF k = streamId THEN [engine |-> engine, lastAccess |-> t] ELSE map[k]]

\* this.activeEngines.delete(streamId)
MapDelete(map, streamId) == [k \in DOMAIN map \ {streamId} |-> map[k]]

\* a ready handler that stores the engine before it looks for the file
StreamReadyStoresFirst(r) ==
    /\ Running
    /\ req[r].kind = "stream"
    /\ req[r].eng = "opening"
    /\ ~req[r].destroyed
    /\ ~HeadersSent(r)
    /\ activeEngines' =
           MapSet(activeEngines,
                  StreamId(req[r].magnet, req[r].fileIndex), r, now)
    /\ IF ~HasFile(req[r].magnet, req[r].fileIndex)
       THEN req' = [req EXCEPT ![r] =
                       [@ EXCEPT !.eng = "ready",
                                 !.res = Answer(404),
                                 !.ended = TRUE,
                                 !.destroyed = TRUE]]
       ELSE LET file == FileAt(req[r].magnet, req[r].fileIndex)
            IN  req' = [req EXCEPT ![r] =
                           [@ EXCEPT !.eng = "ready",
                                     !.res = StreamResponse(file, req[r].range),
                                     !.rs = StreamRead(file, req[r].range),
                                     !.closeListener = TRUE]]
    /\ UNCHANGED <<now, nextSweep, opens, posted, crashed, available, appVars, siteVars>>

\* engine.on('ready') of a stream request
StreamReady(r) ==
    /\ Running
    /\ req[r].kind = "stream"
    /\ req[r].eng = "opening"
    /\ ~req[r].destroyed
    /\ IF HeadersSent(r)
       THEN \* res.send and res.writeHead throw ERR_HTTP_HEADERS_SENT
            /\ crashed' = TRUE
            /\ UNCHANGED <<req, activeEngines>>
       ELSE IF ~HasFile(req[r].magnet, req[r].fileIndex)
       THEN /\ req' = [req EXCEPT ![r] =
                          [@ EXCEPT !.eng = "ready",
                                    !.res = Answer(404),
                                    !.ended = TRUE,
                                    !.destroyed = TRUE]]
            /\ UNCHANGED <<activeEngines, crashed>>
       ELSE LET file == FileAt(req[r].magnet, req[r].fileIndex)
            IN  /\ req' = [req EXCEPT ![r] =
                              [@ EXCEPT !.eng = "ready",
                                        !.res = StreamResponse(file, req[r].range),
                                        !.rs = StreamRead(file, req[r].range),
                                        !.closeListener = TRUE]]
                /\ activeEngines' =
                       MapSet(activeEngines,
                              StreamId(req[r].magnet, req[r].fileIndex), r, now)
                /\ UNCHANGED crashed
    /\ UNCHANGED <<now, nextSweep, opens, posted, available, appVars, siteVars>>

\* engine.on('error') of a stream request, before the engine is ready
StreamError(r) ==
    /\ Running
    /\ req[r].kind = "stream"
    /\ req[r].eng = "opening"
    /\ ~req[r].destroyed
    /\ ~req[r].errored
    /\ req' = [req EXCEPT ![r] =
                  [@ EXCEPT !.errored = TRUE,
                            !.res = IF HeadersSent(r) THEN @ ELSE Answer(500),
                            !.ended = IF HeadersSent(r) THEN @ ELSE TRUE]]
    /\ UNCHANGED <<activeEngines, now, nextSweep, opens, posted, crashed, available, appVars, siteVars>>

\* the read stream of request r reaches its end: stream.pipe(res) ends the
\* response
StreamEnd(r) ==
    /\ Running
    /\ req[r].kind = "stream"
    /\ req[r].rs.open
    /\ req' = [req EXCEPT ![r] =
                  [@ EXCEPT !.rs = [@ EXCEPT !.open = FALSE],
                            !.ended = TRUE]]
    /\ UNCHANGED <<activeEngines, now, nextSweep, opens, posted, crashed, available, appVars, siteVars>>

\* stream.on('error') of the read stream piped to the response: the failed
\* stream delivers nothing more, and pipe does not end the response for it
StreamReadError(r) ==
    /\ Running
    /\ req[r].kind = "stream"
    /\ req[r].rs.open
    /\ req' = [req EXCEPT ![r] =
                  [@ EXCEPT !.rs = [@ EXCEPT !.open = FALSE],
                            !.readError = TRUE,
                            !.res = IF HeadersSent(r) THEN @ ELSE Answer(500),
                            !.ended = IF HeadersSent(r) THEN @ ELSE TRUE]]
    /\ UNCHANGED <<activeEngines, now, nextSweep, opens, posted, crashed, available, appVars, siteVars>>

\* a close listener that destroys the engine and leaves its entry in the map
ClientCloseKeepsEntry(r) ==
    /\ Running
    /\ req[r].kind # "none"
    /\ req[r].conn = "open"
    /\ IF req[r].closeListener
       THEN req' = [req EXCEPT ![r] =
                       [@ EXCEPT !.conn = "closed",
                                 !.rs = [@ EXCEPT !.open = FALSE],
                                 !.destroyed = TRUE]]
       ELSE req' = [req EXCEPT ![r].conn = "closed"]
    /\ UNCHANGED <<activeEngines, now, nextSweep, opens, posted, crashed, available, appVars, siteVars>>

\* the connection of request r closes; req.on('close') runs if the ready
\* handler registered it before
ClientClose(r) ==
    /\ Running
    /\ req[r].kind # "none"
    /\ req[r].conn = "open"
    /\ IF req[r].closeListener
       THEN /\ req' = [req EXCEPT ![r] =
                          [@ EXCEPT !.conn = "closed",
                                    !.rs = [@ EXCEPT !.open = FALSE],
                                    !.destroyed = TRUE]]
            /\ activeEngines' =
                   MapDelete(activeEngines,
                             StreamId(req[r].magnet, req[r].fileIndex))
       ELSE /\ req' = [req EXCEPT ![r].conn = "closed"]
            /\ UNCHANGED activeEngines
    /\ UNCHANGED <<now, nextSweep, opens, posted, crashed, available, appVars, siteVars>>

(***************************************************************************)
(* setupCleanup: the 5-minute interval                                     *)
(***************************************************************************)
\* the entries the interval callback destroys and deletes
Stale(map, t) == {k \in DOMAIN map : t - map[k].lastAccess > MaxAgeSec}

Sweep ==
    /\ Running
    /\ nextSweep = now
    /\ LET stale == Stale(activeEngines, now)
           engines == {activeEngines[k].engine : k \in stale}
       IN  /\ req' = [r \in Reqs |->
                        IF r \in engines
                        THEN [req[r] EXCEPT !.destroyed = TRUE,
                                            !.rs = [@ EXCEPT !.open = FALSE]]
                        ELSE req[r]]
           /\ activeEngines' =
                  [k \in DOMAIN activeEngines \ stale |-> activeEngines[k]]
    /\ nextSweep' = now + SweepIntervalSec
    /\ UNCHANGED <<now, opens, posted, crashed, available, appVars, siteVars>>

(***************************************************************************)
(* GET /api/torrent/health                                                 *)
(***************************************************************************)
\* the response of the health route, which is registered before the
\* catch-all and changes nothing
HealthResponse ==
    [status |-> 200,
     activeStreams |-> Cardinality(DOMAIN activeEngines),
     available |-> available]

(***************************************************************************)
(* The player and the clock                                                *)
(***************************************************************************)
\* a catch-all that answers GET requests only
ProgressReportPastCatchAll(m, p) ==
    /\ Running
    /\ Accepting
    /\ \E r \in Reqs : /\ req[r].magnet = m
                       /\ \/ ~available /\ req[r].kind # "none"
                          \/ /\ req[r].kind = "stream"
                             /\ req[r].res.status \in {200, 206}
    /\ \A rep \in posted[m] : rep.progress # p
    /\ posted' = [posted EXCEPT ![m] = @ \cup {[progress |-> p, status |-> 404]}]
    /\ UNCHANGED <<req, activeEngines, now, nextSweep, opens, crashed, available, appVars, siteVars>>

\* sendWatchProgressDebounced: POST /api/torrent/progress with the player's
\* progress (a percentage here; NaN stands for a payload that is no number)
\* while it plays the magnet, from the proxy's stream or, without
\* torrent-stream, from its own client.  setupRoutes registers no handler for
\* the path: Express answers 404, or the catch-all 503, and the proxy's state
\* is left as it was.
ProgressReport(m, p) ==
    /\ Running
    /\ Accepting
    /\ \E r \in Reqs : /\ req[r].magnet = m
                       /\ \/ ~available /\ req[r].kind # "none"
                          \/ /\ req[r].kind = "stream"
                             /\ req[r].res.status \in {200, 206}
    /\ \A rep \in posted[m] : rep.progress # p
    /\ posted' = [posted EXCEPT ![m] =
                     @ \cup {[progress |-> p,
                              status |-> IF available THEN 404 ELSE 503]}]
    /\ UNCHANGED <<req, activeEngines, now, nextSweep, opens, crashed, available, appVars, siteVars>>

(***************************************************************************)
(* server.js: SIGTERM and SIGINT                                           *)
(***************************************************************************)
\* gracefulShutdown(signal): server.close(callback) stops the main server
\* from accepting and waits for its connections (a repeated signal only adds
\* a callback to the same wait).  The proxy created in startTorrentProxy is
\* held in a local variable there and is not touched.
ShutdownSignal ==
    /\ Running
    /\ shutdown = "running"
    /\ shutdown' = "closing"
    /\ UNCHANGED <<proxyVars, player, auth, db, siteVars>>

\* the callback of server.close once every connection has ended: the pool
\* and the Redis client are closed and the process exits
ShutdownExit ==
    /\ Running
    /\ shutdown = "closing"
    /\ \A r \in Reqs : req[r].kind # "none" => req[r].conn = "closed"
    /\ shutdown' = "exited"
    /\ UNCHANGED <<proxyVars, player, auth, db, siteVars>>

(***************************************************************************)
(* routes/auth.js: POST /register-admin                                    *)
(***************************************************************************)
\* the request arrives: SELECT COUNT(*) FROM admin_users, the checks of the
\* body, and the start of bcrypt.hash
RegisterAdmin(a, usernames, passwords) ==
    /\ Running
    /\ Accepting
    /\ auth.reg[a].phase = "none"
    /\ \A b \in 1..(a - 1) : auth.reg[b].phase # "none"
    /\ \E username \in usernames, password \in passwords :
           LET count == Cardinality(auth.admins)
               status == IF count > 0 THEN 403
                         ELSE IF username = <<>> \/ password = <<>> THEN 400
                         ELSE IF Len(username) < 3 THEN 400
                         ELSE IF Len(password) < 6 THEN 400
                         ELSE 0
           IN  auth' = [auth EXCEPT !.reg[a] =
                           [phase |-> IF status = 0 THEN "hashing" ELSE "done",
                            username |-> username,
                            existed |-> count > 0,
                            status |-> status]]
    /\ UNCHANGED <<proxyVars, shutdown, player, db, siteVars>>

\* bcrypt.hash has resolved: INSERT INTO admin_users, refused by the UNIQUE
\* constraint on username (the catch answers 500), and the response
RegisterAdminInsert(a) ==
    /\ Running
    /\ auth.reg[a].phase = "hashing"
    /\ LET username == auth.reg[a].username
       IN  IF username \in auth.admins
           THEN auth' = [auth EXCEPT !.reg[a].phase = "done",
                                     !.reg[a].status = 500]
           ELSE auth' = [auth EXCEPT !.admins = @ \cup {username},
                                     !.reg[a].phase = "done",
                                     !.reg[a].status = 200]
    /\ UNCHANGED <<proxyVars, shutdown, player, db, siteVars>>

(***************************************************************************)
(* db.init(), called by startServer before the server listens              *)
(***************************************************************************)
\* init() is entered: the first pool.connect() is pending
DbInit(impls) ==
    /\ db.phase = "idle"
    /\ \E impl \in impls :
           db' = [db EXCEPT !.impl = impl, !.phase = "pg", !.attempt = 1]
    /\ UNCHANGED <<proxyVars, shutdown, player, auth, siteVars>>

\* the catch block, entered with the error of the given step: in src/db/db.js
\* the error is thrown on; in the copy with the loop it is thrown on from the
\* last attempt, and otherwise the retry delay is awaited
DbCatch(d, step) ==
    IF d.impl = "single" \/ d.attempt = DbMaxRetries
    THEN [d EXCEPT !.phase = "failed", !.error = step]
    ELSE [d EXCEPT !.phase = "waiting", !.error = step]

\* await pool.connect() settles; src/db/db.js releases the client at once and
\* goes on to Redis, the copy with the loop runs the schema first
DbPgConnect ==
    /\ db.phase = "pg"
    /\ \E ok \in BOOLEAN :
           db' = IF ok
                 THEN [db EXCEPT !.did = @ \cup {"pg"},
                                 !.phase = IF db.impl = "single" THEN "redis"
                                           ELSE "schema"]
                 ELSE DbCatch(db, "pg")
    /\ UNCHANGED <<proxyVars, shutdown, player, auth, siteVars>>

\* await client.query(initSchema) settles; client.release() follows a success
\* only
DbSchema ==
    /\ db.phase = "schema"
    /\ \E ok \in BOOLEAN :
           db' = IF ok
                 THEN [db EXCEPT !.did = @ \cup {"schema"}, !.phase = "redis"]
                 ELSE DbCatch([db EXCEPT !.leaked = @ + 1], "schema")
    /\ UNCHANGED <<proxyVars, shutdown, player, auth, siteVars>>

\* await redisClient.connect() settles; init returns after a success
DbRedis ==
    /\ db.phase = "redis"
    /\ \E ok \in BOOLEAN :
           db' = IF ok
                 THEN [db EXCEPT !.did = @ \cup {"redis"}, !.phase = "done"]
                 ELSE DbCatch(db, "redis")
    /\ UNCHANGED <<proxyVars, shutdown, player, auth, siteVars>>

\* the retry delay has passed: the next iteration of the loop
DbRetry ==
    /\ db.phase = "waiting"
    /\ db' = [db EXCEPT !.phase = "pg",
                        !.attempt = @ + 1,
                        !.did = {},
                        !.t = @ + DbRetryDelaySec,
                        !.startedAt = db.t + DbRetryDelaySec]
    /\ UNCHANGED <<proxyVars, shutdown, player, auth, siteVars>>

(***************************************************************************)
(* EmbeddedPlayer.startStreaming in the browser                            *)
(***************************************************************************)
\* the abort timer of the info fetch
PlayerAbortSec == 10

\* torrentInfo.files.reduce((prev, current) =>
\*     prev.length > current.length ? prev : current)
RECURSIVE ReduceLargest(_, _, _)
ReduceLargest(files, i, prev) ==
    IF i > Len(files)
    THEN prev
    ELSE ReduceLargest(files, i + 1,
                       IF prev.length > files[i].length THEN prev ELSE files[i])

\* the catch block of startStreaming: tryWebTorrentStreaming()
WebTorrentFallback(p, why) ==
    [p EXCEPT !.phase = "webtorrent", !.error = why, !.webtorrents = @ + 1]

\* startStreaming with currentMovie.magnet (<<>>: the movie has none): the
\* info fetch goes out with its abort timer.  The main server forwards it to
\* the service on port 7000, or answers 503 itself when no service listens
\* there (it failed to start, so no request ever reached it)
PlayerStart(r, magnets) ==
    /\ Running
    /\ Accepting
    /\ player.phase = "idle"
    /\ \E m \in magnets :
           IF m = <<>>
           THEN /\ player' = [player EXCEPT !.phase = "error"]
                /\ UNCHANGED <<req, opens>>
           ELSE /\ Arrivable
                /\ \/ /\ NextSlot(r)
                      /\ InfoArrives(r, m)
                      /\ player' = [player EXCEPT !.phase = "fetching",
                                                  !.magnet = m,
                                                  !.slot = r,
                                                  !.abortAt = now + PlayerAbortSec]
                   \/ /\ r = 1
                      /\ \A q \in Reqs : req[q].kind = "none"
                      /\ player' = [player EXCEPT !.phase = "fetching",
                                                  !.magnet = m,
                                                  !.direct = 503,
                                                  !.abortAt = now + PlayerAbortSec]
                      /\ UNCHANGED <<req, opens>>
    /\ UNCHANGED <<activeEngines, now, nextSweep, posted, crashed, available,
                   shutdown, auth, db, siteVars>>

\* the info fetch resolves: clearTimeout, then the checks of
\* tryServerSideStreaming and setupServerStream or the fallback
PlayerInfoResponse ==
    /\ player.phase = "fetching"
    /\ \/ player.direct # 0
       \/ /\ player.slot # 0
          /\ HeadersSent(player.slot)
          /\ req[player.slot].conn = "open"
    /\ LET res == IF player.direct # 0
                  THEN Answer(player.direct)
                  ELSE req[player.slot].res
           p == [player EXCEPT !.abortAt = NoTimer]
       IN  player' =
               IF ~(res.status >= 200 /\ res.status <= 299)
               THEN WebTorrentFallback(p, "status")
               ELSE IF Len(res.files) = 0
               THEN WebTorrentFallback(p, "empty")
               ELSE [p EXCEPT !.phase = "server",
                              !.fileIndex =
                                  Num(ReduceLargest(res.files, 2, res.files[1]).index),
                              !.setups = @ + 1]
    /\ UNCHANGED <<proxyVars, shutdown, auth, db, siteVars>>

\* the fetch rejects with a network error; the abort timer stays armed
PlayerFetchRejects ==
    /\ player.phase = "fetching"
    /\ player' = WebTorrentFallback(player, "network")
    /\ req' = IF player.slot # 0
              THEN [req EXCEPT ![player.slot].conn = "closed"]
              ELSE req
    /\ UNCHANGED <<activeEngines, now, nextSweep, opens, posted, crashed,
                   available, shutdown, auth, db, siteVars>>

\* as PlayerAbort, with a catch block that reports the abort instead of
\* starting WebTorrent
PlayerAbortShowsError ==
    /\ player.abortAt = now
    /\ IF player.phase = "fetching"
       THEN /\ player' = [player EXCEPT !.phase = "error", !.error = "abort",
                                        !.abortAt = NoTimer]
            /\ req' = IF player.slot # 0
                      THEN [req EXCEPT ![player.slot].conn = "closed"]
                      ELSE req
       ELSE /\ player' = [player EXCEPT !.abortAt = NoTimer]
            /\ UNCHANGED req
    /\ UNCHANGED <<activeEngines, now, nextSweep, opens, posted, crashed,
                   available, shutdown, auth, db, siteVars>>

\* the 10 s timer runs controller.abort(): a pending fetch rejects and its
\* connection closes; after the fetch has settled the call does nothing
PlayerAbort ==
    /\ player.abortAt = now
    /\ IF player.phase = "fetching"
       THEN /\ player' = WebTorrentFallback([player EXCEPT !.abortAt = NoTimer],
                                            "abort")
            /\ req' = IF player.slot # 0
                      THEN [req EXCEPT ![player.slot].conn = "closed"]
                      ELSE req
       ELSE /\ player' = [player EXCEPT !.abortAt = NoTimer]
            /\ UNCHANGED req
    /\ UNCHANGED <<activeEngines, now, nextSweep, opens, posted, crashed,
                   available, shutdown, auth, db, siteVars>>

\* the video element set up by setupServerStream requests its src,
\* /api/torrent/stream/<magnet>/<largestFile.index>
PlayerVideoRequest(r, ranges) ==
    /\ Running
    /\ Accepting
    /\ player.phase = "server"
    /\ player.video = 0
    /\ NextSlot(r)
    /\ Arrivable
    /\ \E range \in ranges :
           StreamArrives(r, player.magnet, NumToStr(player.fileIndex), range)
    /\ player' = [player EXCEPT !.video = r]
    /\ UNCHANGED <<activeEngines, now, nextSweep, posted, crashed, available,
                   shutdown, auth, db, siteVars>>

(***************************************************************************)
(* routes/watchTime.js and GET /api/movies/:id, behind userAuth            *)
(***************************************************************************)
\* the lowest free slot of the watch-time and movie requests
NextWatchSlot(a) ==
    /\ watch.req[a].kind = "none"
    /\ \A b \in 1..(a - 1) : watch.req[b].kind # "none"

\* a save, complete or delete of user u's watch time is in progress
WriteInProgress(u) ==
    \E b \in WatchReqs :
        /\ watch.req[b].kind \in {"save", "complete", "delete"}
        /\ watch.req[b].user = u
        /\ watch.req[b].status = 0

\* the slots as a write of user u's watch time arrives
Disturbed(u) ==
    [b \in WatchReqs |->
        IF watch.req[b].user = u /\ watch.req[b].status = 0
        THEN [watch.req[b] EXCEPT !.quiet = FALSE]
        ELSE watch.req[b]]

\* res.status(status).json(...) of request a
WatchAnswer(a, status, watchTime) ==
    [watch.req[a] EXCEPT !.status = status, !.watchTime = watchTime,
                         !.pc = "done"]

\* POST /save arrives: the checks of the body, then the movie query goes out
WatchSaveRequest(a, users, bodies) ==
    /\ NextWatchSlot(a)
    /\ \E u \in users, body \in bodies :
           LET r == [NoWatchReq EXCEPT !.kind = "save", !.user = u,
                                       !.body = body]
           IN  watch' =
                   IF body.movieId = 0 \/ ~body.hasSecs \/ body.secs < 0
                   THEN [watch EXCEPT !.req[a] =
                            [r EXCEPT !.status = 400, !.pc = "done"]]
                   ELSE [watch EXCEPT !.req =
                            [Disturbed(u) EXCEPT ![a] = [r EXCEPT !.pc = "movie"]]]
    /\ UNCHANGED <<proxyVars, appVars, session, startup, debounce>>

\* SELECT id FROM movies WHERE id = $1 of a save
WatchSaveMovie(a) ==
    /\ watch.req[a].pc = "movie"
    /\ watch' = [watch EXCEPT !.req[a] =
                    IF watch.req[a].body.movieId # MovieId
                    THEN WatchAnswer(a, 404, WatchTimeOf(NoRow))
                    ELSE [@ EXCEPT !.pc = "upsert"]]
    /\ UNCHANGED <<proxyVars, appVars, session, startup, debounce>>

\* POST /complete/:movieId arrives
WatchCompleteRequest(a, users, totals) ==
    /\ NextWatchSlot(a)
    /\ \E u \in users, total \in totals :
           LET r == [NoWatchReq EXCEPT !.kind = "complete", !.user = u,
                                       !.body = [movieId |-> MovieId,
                                                 hasSecs |-> TRUE,
                                                 secs |-> total,
                                                 total |-> total]]
           IN  watch' =
                   IF total = 0
                   THEN [watch EXCEPT !.req[a] =
                            [r EXCEPT !.status = 400, !.pc = "done"]]
                   ELSE [watch EXCEPT !.req =
                            [Disturbed(u) EXCEPT ![a] = [r EXCEPT !.pc = "upsert"]]]
    /\ UNCHANGED <<proxyVars, appVars, session, startup, debounce>>

\* INSERT ... ON CONFLICT (user_id, movie_id) DO UPDATE ... RETURNING * of a
\* save or a complete
WatchUpsert(a) ==
    /\ watch.req[a].pc = "upsert"
    /\ LET body == watch.req[a].body
           row == [present |-> TRUE, secs |-> body.secs, total |-> body.total,
                   completed |-> watch.req[a].kind = "complete"]
       IN  watch' = [watch EXCEPT !.table[watch.req[a].user] = row,
                                  !.req[a] = [@ EXCEPT !.row = row,
                                                       !.pc = "del"]]
    /\ UNCHANGED <<proxyVars, appVars, session, startup, debounce>>

\* DELETE /movie/:movieId arrives
WatchDeleteRequest(a, users) ==
    /\ NextWatchSlot(a)
    /\ \E u \in users :
           watch' = [watch EXCEPT !.req =
                        [Disturbed(u) EXCEPT ![a] =
                            [NoWatchReq EXCEPT !.kind = "delete", !.user = u,
                                               !.pc = "delete"]]]
    /\ UNCHANGED <<proxyVars, appVars, session, startup, debounce>>

\* DELETE FROM user_watch_time ... RETURNING *
WatchDeleteRow(a) ==
    /\ watch.req[a].pc = "delete"
    /\ watch' =
           IF ~watch.table[watch.req[a].user].present
           THEN [watch EXCEPT !.req[a] = WatchAnswer(a, 404, WatchTimeOf(NoRow))]
           ELSE [watch EXCEPT !.table[watch.req[a].user] = NoRow,
                              !.req[a] = [@ EXCEPT !.row = NoRow, !.pc = "del"]]
    /\ UNCHANGED <<proxyVars, appVars, session, startup, debounce>>

\* await redis.del(cacheKey) of a save, complete or delete, and the response
\* (progress: rounded for a save with a duration, 100 for a complete)
WatchDel(a) ==
    /\ watch.req[a].pc = "del"
    /\ LET row == watch.req[a].row
           progress == IF watch.req[a].kind = "complete" THEN 100
                       ELSE IF row.total # 0
                       THEN RoundPercent(row.secs, row.total) ELSE 0
       IN  watch' = [watch EXCEPT
                        !.cache[WatchTimeKey(watch.req[a].user)] = <<>>,
                        !.req[a] =
                            WatchAnswer(a, 200,
                                        [WatchTimeOf(row) EXCEPT
                                            !.progress = IF row.present
                                                         THEN progress ELSE 0])]
    /\ UNCHANGED <<proxyVars, appVars, session, startup, debounce>>

\* GET /movie/:movieId (of the watch-time routes) or GET /api/movies/:id
\* arrives: the redis.get goes out
WatchGetRequest(a, users, kinds) ==
    /\ NextWatchSlot(a)
    /\ \E u \in users, kind \in kinds :
           watch' = [watch EXCEPT !.req[a] =
                        [NoWatchReq EXCEPT !.kind = kind, !.user = u,
                                           !.pc = "cache",
                                           !.quiet = ~WriteInProgress(u)]]
    /\ UNCHANGED <<proxyVars, appVars, session, startup, debounce>>

\* the cache key of a get request
GetKey(a) ==
    IF watch.req[a].kind = "get" THEN WatchTimeKey(watch.req[a].user) ELSE MovieKey

\* the watchTime or watchProgress a get request answers for a row
GetBody(a, row) ==
    IF watch.req[a].kind = "get" THEN WatchTimeOf(row) ELSE WatchProgressOf(row)

\* const cached = await redis.get(cacheKey); a hit is the response
WatchGetCache(a) ==
    /\ watch.req[a].pc = "cache"
    /\ watch' = [watch EXCEPT !.req[a] =
                    IF watch.cache[GetKey(a)] # <<>>
                    THEN WatchAnswer(a, 200, watch.cache[GetKey(a)][1])
                    ELSE [@ EXCEPT !.pc = "select"]]
    /\ UNCHANGED <<proxyVars, appVars, session, startup, debounce>>

\* the SELECT of a get: the user's row (joined to the movie for the movie
\* route)
WatchGetSelect(a) ==
    /\ watch.req[a].pc = "select"
    /\ watch' = [watch EXCEPT !.req[a] =
                    [@ EXCEPT !.row = watch.table[watch.req[a].user],
                              !.pc = "set"]]
    /\ UNCHANGED <<proxyVars, appVars, session, startup, debounce>>

\* await redis.setEx(cacheKey, ttl, JSON.stringify(response)); res.json
WatchGetSet(a) ==
    /\ watch.req[a].pc = "set"
    /\ LET body == GetBody(a, watch.req[a].row)
       IN  watch' = [watch EXCEPT !.cache[GetKey(a)] = <<body>>,
                                  !.req[a] = WatchAnswer(a, 200, body)]
    /\ UNCHANGED <<proxyVars, appVars, session, startup, debounce>>

\* the time to live of a cached response (300 s or 600 s) runs out
CacheExpire ==
    /\ \E k \in CacheKeys :
           /\ watch.cache[k] # <<>>
           /\ watch' = [watch EXCEPT !.cache[k] = <<>>]
    /\ UNCHANGED <<proxyVars, appVars, session, startup, debounce>>

(***************************************************************************)
(* middleware/userAuth.js, POST /user-login and the users table            *)
(***************************************************************************)
\* the statements of the admin's user routes on the row of user u: INSERT
\* (is_active defaults to true; ids are serial and not reused), UPDATE of
\* is_active, DELETE
UserAdmin(u) ==
    /\ \/ /\ session.users[u] = "none"
          /\ session' = [session EXCEPT !.users[u] = "active"]
       \/ /\ session.users[u] \in {"active", "inactive"}
          /\ \E state \in {"active", "inactive", "deleted"} :
                 /\ state # session.users[u]
                 /\ session' = [session EXCEPT !.users[u] = state]
    /\ UNCHANGED <<proxyVars, appVars, watch, startup, debounce>>

\* POST /user-login (role "user": the row must exist and be active) and POST
\* /login of an admin with the same id in admin_users (role "admin"), with a
\* right or wrong password: jwt.sign({userId, username, role}, JWT_SECRET)
Login(u, roles, passwordOks) ==
    /\ \E role \in roles, passwordOk \in passwordOks :
           IF (role = "user" /\ session.users[u] # "active") \/ ~passwordOk
           THEN \* 401, no token
                UNCHANGED session
           ELSE session' =
                    [session EXCEPT
                        !.tokens = @ \cup {[userId |-> u, role |-> role,
                                            signed |-> TRUE]}]
    /\ UNCHANGED <<proxyVars, appVars, watch, startup, debounce>>

\* 24 hours after jwt.sign the token has expired
TokenExpire ==
    /\ \E t \in session.tokens \ session.expired :
           session' = [session EXCEPT !.expired = @ \cup {t}]
    /\ UNCHANGED <<proxyVars, appVars, watch, startup, debounce>>

\* as AuthQuery, with a query that does not ask for is_active = true
AuthQueryAnyUser(s) ==
    /\ session.req[s].pc = "query"
    /\ session' = [session EXCEPT !.req[s] =
                      IF session.users[session.req[s].token.userId]
                             \notin {"active", "inactive"}
                      THEN [@ EXCEPT !.pc = "done", !.status = 401]
                      ELSE [@ EXCEPT !.pc = "done", !.handler = TRUE]]
    /\ UNCHANGED <<proxyVars, appVars, watch, startup, debounce>>

\* a request arrives at userAuth with no Authorization header (userId 0), a
\* token signed with another secret, or a token signed by a login: 401 for
\* no token and for a token jwt.verify rejects, else the users query goes out
AuthRequest(s, forged) ==
    /\ session.req[s].pc = "none"
    /\ \A q \in 1..(s - 1) : session.req[q].pc # "none"
    /\ LET none == [userId |-> 0, role |-> "none", signed |-> FALSE]
       IN  \E t \in session.tokens \cup forged \cup {none} :
               session' = [session EXCEPT !.req[s] =
                              IF t = none \/ ~t.signed \/ t \in session.expired
                              THEN [@ EXCEPT !.token = t, !.pc = "done",
                                             !.status = 401]
                              ELSE [@ EXCEPT !.token = t, !.pc = "query"]]
    /\ UNCHANGED <<proxyVars, appVars, watch, startup, debounce>>

\* SELECT id, username, is_active FROM users WHERE id = $1 AND is_active =
\* true resolves: 401 for no row, else req.user is set and next() runs the
\* route handler
AuthQuery(s) ==
    /\ session.req[s].pc = "query"
    /\ session' = [session EXCEPT !.req[s] =
                      IF session.users[session.req[s].token.userId] # "active"
                      THEN [@ EXCEPT !.pc = "done", !.status = 401]
                      ELSE [@ EXCEPT !.pc = "done", !.handler = TRUE]]
    /\ UNCHANGED <<proxyVars, appVars, watch, startup, debounce>>

(***************************************************************************)
(* startServer and startTorrentProxy of server.js                          *)
(***************************************************************************)
\* db.init() has thrown: the catch block of startServer exits with code 1
StartFail ==
    /\ startup.exit = 0 - 1
    /\ db.phase = "failed"
    /\ startup' = [startup EXCEPT !.exit = 1]
    /\ UNCHANGED <<proxyVars, appVars, watch, session, debounce>>

\* db.init() has returned: app.listen(PORT) is called, then
\* startTorrentProxy(), which requires the proxy module, constructs it and
\* calls its listen, or rejects when one of these throws; the rejection is
\* caught and logged
StartListen ==
    /\ startup.exit = 0 - 1
    /\ db.phase = "done"
    /\ startup.main = "none"
    /\ \E threw \in BOOLEAN :
           startup' = [startup EXCEPT !.main = "called",
                                      !.proxy = IF threw THEN "failed"
                                                ELSE "called"]
    /\ UNCHANGED <<proxyVars, appVars, watch, session, debounce>>

\* the main server's listen settles: the port is bound, or the server emits
\* 'error' and its listener exits with code 1
MainListenResult ==
    /\ startup.exit = 0 - 1
    /\ startup.main = "called"
    /\ \E ok \in BOOLEAN :
           startup' = IF ok
                      THEN [startup EXCEPT !.main = "listening"]
                      ELSE [startup EXCEPT !.exit = 1]
    /\ UNCHANGED <<proxyVars, appVars, watch, session, debounce>>

\* the proxy's listen on port 7000 settles: the port is bound and start()
\* resolves, or the server emits 'error' (the port is in use); that server
\* has no 'error' listener, so the event is thrown as an uncaught exception
\* and the uncaughtException handler exits with code 1
ProxyListenResult ==
    /\ startup.exit = 0 - 1
    /\ startup.proxy = "called"
    /\ \E ok \in BOOLEAN :
           startup' = IF ok
                      THEN [startup EXCEPT !.proxy = "listening"]
                      ELSE [startup EXCEPT !.proxy = "failed", !.exit = 1]
    /\ UNCHANGED <<proxyVars, appVars, watch, session, debounce>>

(***************************************************************************)
(* sendWatchProgressDebounced and closePlayer of the player                *)
(***************************************************************************)
\* as TimeUpdate, with a sendWatchProgressDebounced that sets the new timer
\* without clearing the one pending
TimeUpdateKeepsTimer(progressValues) ==
    /\ Running
    /\ debounce.open
    /\ debounce.calls < MaxCalls
    /\ now + DebounceSec <= MaxTime
    /\ \E progress \in progressValues :
           IF progress.nan \/ progress.v <= 0
           THEN UNCHANGED debounce
           ELSE debounce' =
                    [debounce EXCEPT
                        !.timers = @ \cup {[id |-> debounce.calls + 1,
                                            at |-> now + DebounceSec,
                                            progress |-> progress]},
                        !.handle = debounce.calls + 1,
                        !.calls = @ + 1,
                        !.last = progress,
                        !.lastAt = now]
    /\ UNCHANGED <<proxyVars, appVars, watch, session, startup>>

\* the video's timeupdate listener with progress = currentTime / duration:
\* a number above 0 is passed to sendWatchProgressDebounced, which clears the
\* timer this.progressUpdateTimeout names and sets a new one
TimeUpdate(progressValues) ==
    /\ Running
    /\ debounce.open
    /\ debounce.calls < MaxCalls
    /\ now + DebounceSec <= MaxTime
    /\ \E progress \in progressValues :
           IF progress.nan \/ progress.v <= 0
           THEN UNCHANGED debounce
           ELSE debounce' =
                    [debounce EXCEPT
                        !.timers = {t \in @ : t.id # debounce.handle}
                                       \cup {[id |-> debounce.calls + 1,
                                              at |-> now + DebounceSec,
                                              progress |-> progress]},
                        !.handle = debounce.calls + 1,
                        !.calls = @ + 1,
                        !.last = progress,
                        !.lastAt = now]
    /\ UNCHANGED <<proxyVars, appVars, watch, session, startup>>

\* a progress timer is due: its callback posts the progress it captured
ProgressTimer ==
    /\ \E t \in debounce.timers :
           /\ t.at = now
           /\ debounce' =
                  [debounce EXCEPT
                      !.timers = @ \ {t},
                      !.sent = @ \cup {[progress |-> t.progress, at |-> now]}]
    /\ UNCHANGED <<proxyVars, appVars, watch, session, startup>>

\* closePlayer: clearTimeout(this.progressUpdateTimeout); the video is
\* paused and removed
ClosePlayer ==
    /\ debounce.open
    /\ debounce' = [debounce EXCEPT
                       !.open = FALSE,
                       !.timers = {t \in @ : t.id # debounce.handle}]
    /\ UNCHANGED <<proxyVars, appVars, watch, session, startup>>

\* the pending timers' deadlines
Deadlines ==
    {nextSweep}
        \cup {req[r].timeout : r \in {q \in Reqs : req[q].timeout # NoTimer}}
        \cup {req[r].linger : r \in {q \in Reqs : req[q].linger # NoTimer}}
        \cup (IF player.abortAt # NoTimer THEN {player.abortAt} ELSE {})
        \cup {t.at : t \in debounce.timers}

\* time passes, up to the next deadline; a timer that is due runs first
Tick ==
    /\ Running
    /\ \A d \in Deadlines : d > now
    /\ LET next == CHOOSE d \in Deadlines : \A e \in Deadlines : d <= e
       IN  /\ next <= MaxTime
           /\ now' = next
    /\ UNCHANGED <<req, activeEngines, nextSweep, opens, posted, crashed, available, appVars, siteVars>>

\* playback goes on for two seconds while a progress timer is pending and
\* not yet due
PlayTime ==
    /\ Running
    /\ debounce.timers # {}
    /\ \A d \in Deadlines : now + 2 < d
    /\ now' = now + 2
    /\ UNCHANGED <<req, activeEngines, nextSweep, opens, posted, crashed,
                   available, appVars, siteVars>>

(***************************************************************************)
(* Inputs and specifications                                               *)
(***************************************************************************)
\* Range: bytes=start-end
RangeHeader(start, end) == BytesEq \o NatToStr(start) \o <<"-">> \o NatToStr(end)

\* Range: bytes=start-
OpenRangeHeader(start) == BytesEq \o NatToStr(start) \o <<"-">>

\* the magnets, fileIndex parameters and Range headers (<<>>: none) of the
\* requests of the lifecycle specification
Magnets == {MagnetA, MagnetB}

FileIndexParams == {<<"0">>, <<"1">>}

Ranges == {<<>>, OpenRangeHeader(0)}

\* the progress values the player posts, in percent
ProgressValues == {Num(30), Num(95)}

Next ==
    \/ \E r \in Reqs : InfoRequest(r, Magnets)
    \/ \E r \in Reqs : StreamRequest(r, Magnets, FileIndexParams, Ranges)
    \/ \E r \in Reqs : InfoTimeout(r)
    \/ \E r \in Reqs : InfoReady(r)
    \/ \E r \in Reqs : InfoLinger(r)
    \/ \E r \in Reqs : InfoError(r)
    \/ \E r \in Reqs : StreamReady(r)
    \/ \E r \in Reqs : StreamError(r)
    \/ \E r \in Reqs : StreamEnd(r)
    \/ \E r \in Reqs : StreamReadError(r)
    \/ \E r \in Reqs : ClientClose(r)
    \/ Sweep
    \/ \E m \in Magnets, p \in ProgressValues : ProgressReport(m, p)
    \/ Tick

Spec == Init /\ [][Next]_vars

\* the requests of the range specification: one request slot, served without
\* the clock advancing, over every magnet, fileIndex parameter and Range header
AllMagnets == {MagnetA, MagnetB, MagnetC}

AllFileIndexParams ==
    {<<"0">>, <<"1">>, <<"2">>, <<"3">>, <<"5">>, <<"6">>, <<"9">>, <<"x">>,
     <<"-", "1">>, <<>>}

AllRanges ==
    {<<>>}
        \cup {RangeHeader(s, e) : s \in 0..MaxOffset, e \in 0..MaxOffset}
        \cup {OpenRangeHeader(s) : s \in 0..MaxOffset}
        \cup {RangeHeader(100, 199), OpenRangeHeader(2000),
              BytesEq \o <<"-", "5">>,
              BytesEq \o <<"x", "-">>,
              BytesEq \o <<"3", "-", "x">>,
              <<"5", "-", "9">>}

RangeNext ==
    \/ StreamRequest(1, AllMagnets, AllFileIndexParams, AllRanges)
    \/ StreamReady(1)
    \/ StreamError(1)
    \/ StreamEnd(1)
    \/ StreamReadError(1)
    \/ ClientClose(1)

RangeSpec == Init /\ [][RangeNext]_vars

\* the requests of the single-request specification: one request slot under
\* the clock and the cleanup interval, with every kind of progress body a
\* client can post: numbers within 0..100 percent, as the player sends them,
\* numbers outside, and a payload that is no number
AllProgressValues == {Num(30), Num(95), Num(150), Num(0 - 10), NaN}

OneNext ==
    \/ InfoRequest(1, Magnets)
    \/ StreamRequest(1, Magnets, FileIndexParams \cup {<<"9">>, <<>>}, Ranges)
    \/ InfoTimeout(1)
    \/ InfoReady(1)
    \/ InfoLinger(1)
    \/ InfoError(1)
    \/ StreamReady(1)
    \/ StreamError(1)
    \/ StreamEnd(1)
    \/ StreamReadError(1)
    \/ ClientClose(1)
    \/ Sweep
    \/ \E m \in Magnets, p \in AllProgressValues : ProgressReport(m, p)
    \/ Tick

OneSpec == Init /\ [][OneNext]_vars

\* the single-request specification with the server's shutdown signals
ShutdownNext ==
    \/ OneNext
    \/ ShutdownSignal
    \/ ShutdownExit

ShutdownSpec == Init /\ [][ShutdownNext]_vars

\* the register-admin specification: the bodies posted are two usernames long
\* enough, one too short and a missing one, with a password long enough, one
\* too short and a missing one
Usernames ==
    {<<"a", "n", "n">>, <<"b", "o", "b">>, <<"a", "l">>, <<>>}

Passwords ==
    {<<"s", "e", "c", "r", "e", "t">>, <<"s", "e", "c", "r", "e">>, <<>>}

AuthNext ==
    \/ \E a \in Regs : RegisterAdmin(a, Usernames, Passwords)
    \/ \E a \in Regs : RegisterAdminInsert(a)

AuthSpec == Init /\ [][AuthNext]_vars

\* the start-up specification: db.init() of either copy of the db module
DbImpls == {"single", "retry"}

DbNext ==
    \/ DbInit(DbImpls)
    \/ DbPgConnect
    \/ DbSchema
    \/ DbRedis
    \/ DbRetry

DbSpec == Init /\ [][DbNext]_vars

\* the requests of the pair specification: the request slots taken by info
\* and stream requests for the magnet strings of one torrent, served without
\* the clock advancing
PairMagnets == {MagnetA, MagnetAUpper, MagnetATracker}

PairFileIndexParams == {<<"0">>, <<"1">>, <<"2">>}

PairNext ==
    \/ \E r \in Reqs : InfoRequest(r, PairMagnets)
    \/ \E r \in Reqs : StreamRequest(r, PairMagnets, PairFileIndexParams, {<<>>})
    \/ \E r \in Reqs : InfoReady(r)
    \/ \E r \in Reqs : InfoError(r)
    \/ \E r \in Reqs : StreamReady(r)
    \/ \E r \in Reqs : StreamError(r)
    \/ \E r \in Reqs : ClientClose(r)

PairSpec == Init /\ [][PairNext]_vars

\* the player specification: the player opens a movie with a playable
\* torrent, one without video files or no magnet at all, and the service
\* handles the requests the player sends, under the clock
PlayerMagnets == {MagnetA, MagnetD, <<>>}

PlayerNext ==
    \/ \E r \in Reqs : PlayerStart(r, PlayerMagnets)
    \/ PlayerInfoResponse
    \/ PlayerFetchRejects
    \/ PlayerAbort
    \/ \E r \in Reqs : PlayerVideoRequest(r, Ranges)
    \/ \E r \in Reqs :
           \/ InfoTimeout(r)
           \/ InfoReady(r)
           \/ InfoLinger(r)
           \/ InfoError(r)
           \/ StreamReady(r)
           \/ StreamError(r)
           \/ StreamEnd(r)
           \/ ClientClose(r)
    \/ Sweep
    \/ Tick

PlayerSpec == Init /\ [][PlayerNext]_vars

\* the single-request specification with its scheduling: the clock advances,
\* a timer that is due runs (setTimeout, setInterval), and a client that is
\* connected disconnects in the end.  Whether an engine becomes ready or
\* fails is up to the swarm and gets no fairness condition
LeakSpec ==
    /\ Init
    /\ [][OneNext]_vars
    /\ WF_vars(Tick)
    /\ WF_vars(InfoTimeout(1))
    /\ WF_vars(InfoLinger(1))
    /\ WF_vars(Sweep)
    /\ WF_vars(ClientClose(1))

\* the registry specification: stream requests for two files of one torrent
\* in every request slot, their ready, end and close events, and the cleanup
\* interval under the clock
RegistryFileIndexParams == {<<"0">>, <<"2">>}

RegistryNext ==
    \/ \E r \in Reqs :
           \/ StreamRequest(r, {MagnetA}, RegistryFileIndexParams, {<<>>})
           \/ StreamReady(r)
           \/ StreamEnd(r)
           \/ ClientClose(r)
    \/ Sweep
    \/ Tick

RegistrySpec == Init /\ [][RegistryNext]_vars

\* the watch-time specification: two users save, complete, delete and read
\* their watch time of one movie and open the movie's page, in every
\* interleaving of the handlers' awaits.  The bodies of a save: a position
\* with and without a duration, position 0, and the bodies the checks reject
SaveBodies ==
    {[movieId |-> MovieId, hasSecs |-> TRUE, secs |-> 30, total |-> 45],
     [movieId |-> MovieId, hasSecs |-> TRUE, secs |-> 30, total |-> 0],
     [movieId |-> MovieId, hasSecs |-> TRUE, secs |-> 0, total |-> 45],
     [movieId |-> MovieId, hasSecs |-> TRUE, secs |-> 0 - 5, total |-> 45],
     [movieId |-> MovieId, hasSecs |-> FALSE, secs |-> 0, total |-> 45],
     [movieId |-> 0, hasSecs |-> TRUE, secs |-> 30, total |-> 45],
     [movieId |-> 9, hasSecs |-> TRUE, secs |-> 30, total |-> 45]}

WatchNext ==
    \/ \E a \in WatchReqs :
           \/ WatchSaveRequest(a, WatchUsers, SaveBodies)
           \/ WatchSaveMovie(a)
           \/ WatchCompleteRequest(a, WatchUsers, {0, 45})
           \/ WatchUpsert(a)
           \/ WatchDeleteRequest(a, WatchUsers)
           \/ WatchDeleteRow(a)
           \/ WatchDel(a)
           \/ WatchGetRequest(a, WatchUsers, {"get", "movie"})
           \/ WatchGetCache(a)
           \/ WatchGetSelect(a)
           \/ WatchGetSet(a)
    \/ CacheExpire

WatchSpec == Init /\ [][WatchNext]_vars

\* the session specification: two users are created, deactivated,
\* reactivated and deleted, log in, and send requests with every token
\* signed so far, a forged one or none, while tokens expire
ForgedTokens == {[userId |-> 1, role |-> "user", signed |-> FALSE]}

SessionNext ==
    \/ \E u \in WatchUsers :
           \/ UserAdmin(u)
           \/ Login(u, {"user"}, BOOLEAN)
    \/ Login(1, {"admin"}, {TRUE})
    \/ TokenExpire
    \/ \E s \in AuthReqs :
           \/ AuthRequest(s, ForgedTokens)
           \/ AuthQuery(s)

SessionSpec == Init /\ [][SessionNext]_vars

\* the start-up specification: db.init() with every outcome of its steps,
\* then the two listen calls with theirs
StartupNext ==
    \/ DbNext
    \/ StartFail
    \/ StartListen
    \/ MainListenResult
    \/ ProxyListenResult

StartupSpec == Init /\ [][StartupNext]_vars

\* the debounce specification: timeupdate events with progress values in
\* percent, 0 and NaN (no duration yet) at different times, the progress
\* timer, closePlayer, under the clock
DebounceNext ==
    \/ TimeUpdate({Num(30), Num(60), Num(95), Num(0), NaN})
    \/ ProgressTimer
    \/ ClosePlayer
    \/ PlayTime
    \/ Sweep
    \/ Tick

DebounceSpec == Init /\ [][DebounceNext]_vars

(***************************************************************************)
(* Properties                                                              *)
(***************************************************************************)
\* the engine request r opened is live: opened and not yet destroyed
Live(r) == req[r].eng # "none" /\ ~req[r].destroyed

\* r is the first request for its magnet
FirstFor(r) == \A q \in 1..(r - 1) : req[q].magnet # req[r].magnet

\* the key under which the ready handler of stream request r stores its engine
KeyOf(r) == StreamId(req[r].magnet, req[r].fileIndex)

\* r is a stream request whose response is still being piped to a connected
\* client
ActiveRead(r) ==
    /\ req[r].kind = "stream"
    /\ req[r].rs.open
    /\ req[r].conn = "open"

\* the step is a run of the cleanup interval
SweepStep == nextSweep' # nextSweep

\* C1: single-flight.  While the engine opened by the first request for a
\* magnet has not yet become ready (nor failed, nor been closed), the requests
\* for that magnet have caused exactly one torrentStream call.
C1_SingleFlight ==
    \A r \in Reqs :
        ( /\ req[r].kind # "none"
          /\ FirstFor(r)
          /\ req[r].eng = "opening"
          /\ ~req[r].errored
          /\ ~req[r].destroyed )
        => opens[req[r].magnet] = 1

\* C2: in every reachable state at most one live engine (opened and not yet
\* closed) exists per magnet.
C2_OneLiveEnginePerContent ==
    \A m \in AllMagnets :
        Cardinality({r \in Reqs : Live(r) /\ req[r].magnet = m}) <= 1

\* C3: a client disconnect during a stream never closes the engine.  When the
\* connection of a stream request closes while its read is open, the engine
\* is not destroyed and its entry stays in the registry.
C3_DisconnectKeepsEngine ==
    [][ \A r \in Reqs :
          ( /\ ActiveRead(r)
            /\ ~req[r].destroyed
            /\ req'[r].conn = "closed" )
          => /\ ~req'[r].destroyed
             /\ KeyOf(r) \in DOMAIN activeEngines
                    => KeyOf(r) \in DOMAIN activeEngines' ]_vars

\* C4: the idle sweep never destroys an engine that has an active read.  In a
\* run of the cleanup interval no request with a connected streaming response
\* loses its engine, and every entry removed had no such response and was
\* idle for more than 10 minutes.
C4_SweepSparesActiveReads ==
    [][ SweepStep =>
          /\ \A r \in Reqs :
                 (ActiveRead(r) /\ ~req[r].destroyed) => ~req'[r].destroyed
          /\ \A k \in DOMAIN activeEngines \ DOMAIN activeEngines' :
                 /\ ~ActiveRead(activeEngines[k].engine)
                 /\ now - activeEngines[k].lastAccess > MaxAgeSec ]_vars

\* C5: every request that opens an engine is eventually answered even if the
\* engine never becomes ready and never emits an error, by the proxy's own
\* timeout.  Ready and error are the swarm's events and need never happen, so
\* an unanswered request is answered only if a timeout of the proxy is
\* pending for it: that is required of every state.
C5_PendingOpenHasTimeout ==
    \A r \in Reqs :
        (req[r].kind # "none" /\ ~HeadersSent(r) /\ ~crashed)
        => req[r].timeout # NoTimer

\* the byte offsets the range properties speak about
Offsets == (0..MaxOffset) \cup {100, 199, 999, 2000}

\* stream request r was served by its ready handler from an existing file
ServedFile(r) ==
    /\ req[r].kind = "stream"
    /\ req[r].eng = "ready"
    /\ HasFile(req[r].magnet, req[r].fileIndex)

\* the byte length of the file stream request r designates
TotalOf(r) == FileAt(req[r].magnet, req[r].fileIndex).length

\* C6: a stream request with Range: bytes=start-end, 0 <= start <= end < total
\* (end defaulting to total-1 when omitted), is answered 206 with
\* Content-Range 'bytes start-end/total' and Content-Length end-start+1, and
\* the read stream covers the bytes start..end.  The spec's example is stated
\* literally: bytes=100-199 of 1000 bytes gives 'bytes 100-199/1000', 100.
C6_RangeResponse ==
    \A r \in Reqs :
        (ServedFile(r) /\ req[r].range # <<>>) =>
            /\ \A s \in Offsets, e \in Offsets :
                   ( /\ s <= e
                     /\ e < TotalOf(r)
                     /\ \/ req[r].range = RangeHeader(s, e)
                        \/ /\ e = TotalOf(r) - 1
                           /\ req[r].range = OpenRangeHeader(s) )
                   => /\ req[r].res.status = 206
                      /\ req[r].res.contentRange =
                             <<"b", "y", "t", "e", "s", " ">> \o NatToStr(s)
                                 \o <<"-">> \o NatToStr(e) \o <<"/">>
                                 \o NatToStr(TotalOf(r))
                      /\ req[r].res.contentLength = Num(e - s + 1)
                      /\ req[r].rs.start = Num(s)
                      /\ req[r].rs.end = Num(e)
            /\ (req[r].range = RangeHeader(100, 199) /\ TotalOf(r) = 1000)
                   => /\ req[r].res.contentRange =
                             <<"b", "y", "t", "e", "s", " ", "1", "0", "0", "-",
                               "1", "9", "9", "/", "1", "0", "0", "0">>
                      /\ req[r].res.contentLength = Num(100)

\* C6 happens: bytes=100-199 of the 1000-byte file is being streamed
C6_Witness ==
    \E r \in Reqs :
        /\ ServedFile(r)
        /\ TotalOf(r) = 1000
        /\ req[r].range = RangeHeader(100, 199)
        /\ req[r].res.status = 206
        /\ req[r].rs.open

\* C7: a stream request whose Range start is at or beyond the file length is
\* answered 416, and no read stream is opened for it.
C7_StartBeyondLength ==
    \A r \in Reqs :
        ServedFile(r) =>
            \A s \in Offsets :
                (s >= TotalOf(r) /\ req[r].range = OpenRangeHeader(s))
                => /\ req[r].res.status = 416
                   /\ req[r].rs = NoStream

\* name has the extension ext: it ends with ext, in any letter case, after at
\* least one character of its base name
EndsWithExt(name, ext) ==
    /\ Len(name) > Len(ext)
    /\ name[Len(name) - Len(ext)] # "/"
    /\ \A i \in 1..Len(ext) :
           LowerChar(name[Len(name) - Len(ext) + i]) = ext[i]

\* C8: a stream request without a Range header for an existing file is
\* answered 200 with Content-Length the full file length, Accept-Ranges:
\* bytes, and the Content-Type of the extension table (.mp4, .mkv, .webm,
\* .avi, .mov), every other extension getting the default video/mp4.
C8_FullResponse ==
    \A r \in Reqs :
        (ServedFile(r) /\ req[r].range = <<>>) =>
            LET name == FileAt(req[r].magnet, req[r].fileIndex).name
            IN  /\ req[r].res.status = 200
                /\ req[r].res.contentLength = Num(TotalOf(r))
                /\ req[r].res.acceptRanges
                /\ req[r].res.contentRange = <<>>
                /\ req[r].rs.start = Num(0)
                /\ req[r].rs.end = Num(TotalOf(r) - 1)
                /\ req[r].res.contentType =
                       IF EndsWithExt(name, <<".", "m", "k", "v">>)
                       THEN "video/x-matroska"
                       ELSE IF EndsWithExt(name, <<".", "w", "e", "b", "m">>)
                       THEN "video/webm"
                       ELSE IF EndsWithExt(name, <<".", "a", "v", "i">>)
                       THEN "video/x-msvideo"
                       ELSE IF EndsWithExt(name, <<".", "m", "o", "v">>)
                       THEN "video/quicktime"
                       ELSE "video/mp4"

\* C8 happens: a full response for a file whose table extension is written
\* in capitals
C8_Witness ==
    \E r \in Reqs :
        /\ ServedFile(r)
        /\ req[r].range = <<>>
        /\ req[r].res.status = 200
        /\ req[r].rs.open
        /\ FileAt(req[r].magnet, req[r].fileIndex).name = <<"s", ".", "M", "K", "V">>

\* the step is a failed open of request r's engine: an error before ready,
\* or the open timeout
OpenFailure(r) ==
    /\ req[r].kind # "none"
    /\ req[r].eng = "opening"
    /\ ~req[r].errored
    /\ ~req[r].destroyed
    /\ \/ req'[r].errored
       \/ req'[r].res.status = 408

\* C9: after an open failure for a magnet every request waiting on that magnet
\* has received the error, and the registry holds no entry of the failed
\* engine.
C9_OpenFailureReachesWaiters ==
    [][ \A r \in Reqs :
          OpenFailure(r) =>
              /\ \A q \in Reqs :
                     ( /\ req[q].kind # "none"
                       /\ req[q].magnet = req[r].magnet
                       /\ ~HeadersSent(q) )
                     => req'[q].res.status \in {408, 500}
              /\ \A k \in DOMAIN activeEngines' :
                     activeEngines'[k].engine # r ]_vars

\* the valid progress values reported for a magnet, in percent: the numbers
\* from 0 to 100
ValidReports(m) ==
    {rep.progress.v : rep \in {q \in posted[m] : /\ ~q.progress.nan
                                                /\ q.progress.v >= 0
                                                /\ q.progress.v <= 100}}

\* the watch fraction of a magnet, in percent: the highest valid progress
\* reported
WatchPercent(m) ==
    IF ValidReports(m) = {} THEN 0
    ELSE CHOOSE p \in ValidReports(m) : \A q \in ValidReports(m) : q <= p

\* C10: after a sweep has run, no entry whose content has a watch fraction of
\* 0.9 or more remains in the registry, whatever its lastAccess, and the
\* engine of every removed entry has been closed.
C10_FinishedEvictedBySweep ==
    [][ SweepStep =>
          /\ \A k \in DOMAIN activeEngines' :
                 WatchPercent(req[activeEngines'[k].engine].magnet) < 90
          /\ \A k \in DOMAIN activeEngines \ DOMAIN activeEngines' :
                 req'[activeEngines[k].engine].destroyed ]_vars

\* the magnet of the entry stored under key k
MagnetOf(k) == req[activeEngines[k].engine].magnet

\* some request is reading under key k
HasActiveRead(k) == \E r \in Reqs : ActiveRead(r) /\ KeyOf(r) = k

\* C11: a run of the sweep removes an entry whose watch fraction is below 0.9
\* and which has no active read exactly when the entry was last accessed more
\* than 24 hours before: younger entries are still in the registry after the
\* sweep.
C11_RetentionSweep ==
    [][ SweepStep =>
          \A k \in DOMAIN activeEngines :
              (WatchPercent(MagnetOf(k)) < 90 /\ ~HasActiveRead(k)) =>
                  ( (k \notin DOMAIN activeEngines')
                        <=> (now - activeEngines[k].lastAccess > 24 * 3600) ) ]_vars

\* C12: the watch fraction recorded in an entry is the maximum of the valid
\* fractions reported for its content so far, whatever the order of the
\* reports (so it never decreases).
C12_WatchFractionIsMaxReported ==
    \A k \in DOMAIN activeEngines :
        ValidReports(MagnetOf(k)) # {} =>
            /\ "watchFraction" \in DOMAIN activeEngines[k]
            /\ activeEngines[k].watchFraction = WatchPercent(MagnetOf(k))

\* a progress value that is no number or lies outside 0..100 percent
InvalidProgress(p) == p.nan \/ p.v < 0 \/ p.v > 100

\* C13: with torrent-stream installed, a progress report whose value is above
\* 1, negative or not a finite number is answered 400, and the requests' and
\* the registry's state is left as it was.
C13_InvalidProgressRejected ==
    [][ \A m \in DOMAIN posted :
            \A rep \in posted'[m] \ posted[m] :
                (available /\ InvalidProgress(rep.progress)) =>
                    /\ rep.status = 400
                    /\ UNCHANGED <<req, activeEngines>> ]_vars

\* C14: with torrent-stream installed, a valid progress report of the player
\* for the content it plays is answered 200, and the entries of that content have their lastAccess
\* refreshed.
C14_ValidProgressAccepted ==
    [][ \A m \in DOMAIN posted :
            \A rep \in posted'[m] \ posted[m] :
                (available /\ ~InvalidProgress(rep.progress)) =>
                    /\ rep.status = 200
                    /\ \A k \in DOMAIN activeEngines' :
                           MagnetOf(k) = m =>
                               activeEngines'[k].lastAccess = now ]_vars

\* the files of a magnet whose names end in an extension of the media
\* allow-list
Playable(m) ==
    {i \in 1..Len(EngineFiles(m)) :
        \E ext \in { <<".", "m", "p", "4">>, <<".", "m", "k", "v">>,
                     <<".", "w", "e", "b", "m">>, <<".", "a", "v", "i">>,
                     <<".", "m", "o", "v">>, <<".", "m", "4", "v">> } :
            EndsWithExt(EngineFiles(m)[i].name, ext)}

\* C15: a stream request that gives no fileIndex, once answered, has been
\* served the longest file of the media allow-list (a full response carries
\* that file's length), or has failed when no file of the torrent is on the
\* list.
C15_NoIndexServesLargest ==
    \A r \in Reqs :
        ( /\ available
          /\ req[r].kind = "stream"
          /\ req[r].param = <<>>
          /\ HeadersSent(r) ) =>
            LET m == req[r].magnet
                fs == EngineFiles(m)
            IN  IF Playable(m) = {}
                THEN req[r].res.status \notin {200, 206}
                ELSE /\ req[r].res.status \in {200, 206}
                     /\ req[r].res.status = 200 =>
                            \E i \in Playable(m) :
                                /\ \A j \in Playable(m) :
                                       fs[j].length <= fs[i].length
                                /\ req[r].res.contentLength = Num(fs[i].length)

\* C16: with torrent-stream installed, the response of an info request is
\* decided by the first of three events and is final.  A request arrives with
\* a 30-second timer; its first response is 200 with the file list when the
\* engine becomes ready, 500 when the engine fails, 408 when the timer runs
\* out with neither; until then the timer is pending; and once a response has
\* been sent no later event replaces it.
C16_InfoOutcome ==
    [][ \A r \in Reqs :
            (available /\ req'[r].kind = "info") =>
                /\ req[r].kind = "none" =>
                       /\ req'[r].res.status = 0
                       /\ req'[r].timeout = now + 30
                /\ req'[r].res.status = 0 => req'[r].timeout >= now'
                /\ (req[r].kind = "info" /\ HeadersSent(r)) =>
                       req'[r].res = req[r].res
                /\ (req[r].kind = "info" /\ ~HeadersSent(r)
                        /\ req'[r].res.status # 0) =>
                       \/ /\ req'[r].res.status = 200
                          /\ req'[r].res.files = InfoFiles(req[r].magnet)
                          /\ req[r].eng = "opening" /\ req'[r].eng = "ready"
                          /\ ~req'[r].errored
                       \/ /\ req'[r].res.status = 500
                          /\ ~req[r].errored /\ req'[r].errored
                          /\ req'[r].eng = "opening"
                       \/ /\ req'[r].res.status = 408
                          /\ req[r].timeout = now
                          /\ ~req'[r].errored
                          /\ req'[r].eng = "opening" ]_vars

\* an info request was answered 500 and its engine became ready afterwards
C16_Witness ==
    \E r \in Reqs :
        /\ req[r].kind = "info"
        /\ req[r].res.status = 500
        /\ crashed

\* the fileIndex parameter names one of the files of the magnet
DesignatesFile(m, param) ==
    \E i \in 0..(Len(EngineFiles(m)) - 1) : param = NatToStr(i)

\* C17: a stream request whose fileIndex designates no file of the torrent (it
\* is the number of files or more, negative, or no number) is answered 404
\* when its engine is ready: no read stream is opened for it and the
\* active-engine map holds no entry for its engine.
C17_BadIndexIs404 ==
    \A r \in Reqs :
        ( /\ req[r].kind = "stream"
          /\ req[r].eng = "ready"
          /\ ~DesignatesFile(req[r].magnet, req[r].param) ) =>
            /\ req[r].res = Answer(404)
            /\ req[r].ended
            /\ req[r].rs = NoStream
            /\ \A k \in DOMAIN activeEngines : activeEngines[k].engine # r

\* the engine of a request for fileIndex 3 of the three-file magnet is ready
C17_Witness ==
    \E r \in Reqs :
        /\ req[r].kind = "stream"
        /\ req[r].eng = "ready"
        /\ req[r].magnet = MagnetA
        /\ req[r].param = <<"3">>

\* C18: after the read stream of a stream request has failed, the response to
\* a client that is still connected has been ended: with 500 when no header
\* had been sent, by terminating the response otherwise.
C18_ReadErrorEndsResponse ==
    \A r \in Reqs :
        (req[r].readError /\ req[r].conn = "open") => req[r].ended

\* C19: without torrent-stream every info, stream and progress request is
\* answered 503, no engine is opened and the active-engine map stays empty.
C19_UnavailableIs503 ==
    ~available =>
        /\ \A r \in Reqs :
               req[r].kind # "none" =>
                   /\ req[r].res = Answer(503)
                   /\ req[r].ended
                   /\ req[r].eng = "none"
        /\ \A m \in DOMAIN posted : \A rep \in posted[m] : rep.status = 503
        /\ \A m \in DOMAIN opens : opens[m] = 0
        /\ DOMAIN activeEngines = {}

\* without torrent-stream a stream request and a progress report have been
\* answered
C19_Witness ==
    /\ ~available
    /\ \E r \in Reqs : req[r].kind = "stream" /\ HeadersSent(r)
    /\ \E m \in DOMAIN posted : posted[m] # {}

\* C20: the health route answers 200, and the occupancy it reports is the
\* number of live engines, those of info requests and of streams of the same
\* content and file included.
C20_HealthCountsLiveEngines ==
    ~crashed =>
        /\ HealthResponse.status = 200
        /\ HealthResponse.activeStreams = Cardinality({r \in Reqs : Live(r)})

\* C21: eviction is safe against racing requests.  Every request opens an
\* engine of its own, so none is handed an engine a sweep has closed; what is
\* left to require is that no response still being piped to a connected client
\* reads from an engine that has been closed.
C21_NoReadFromClosedEngine ==
    \A r \in Reqs :
        ( /\ req[r].kind = "stream"
          /\ req[r].res.status \in {200, 206}
          /\ req[r].conn = "open"
          /\ ~req[r].ended
          /\ ~req[r].readError ) => ~req[r].destroyed

\* C22: closing one connection cancels only that request's read.  When a
\* stream request disconnects while another request for the same content and
\* file is streaming from its registered engine, the other's read stays open
\* and its engine stays registered and alive.
C22_CloseCancelsOwnReadOnly ==
    [][ \A r, q \in Reqs :
          ( /\ r # q
            /\ req[r].kind = "stream"
            /\ req[r].conn = "open" /\ req'[r].conn = "closed"
            /\ ActiveRead(q)
            /\ KeyOf(q) = KeyOf(r)
            /\ KeyOf(q) \in DOMAIN activeEngines
            /\ activeEngines[KeyOf(q)].engine = q )
          => /\ req'[q].rs.open
             /\ ~req'[q].destroyed
             /\ KeyOf(q) \in DOMAIN activeEngines'
             /\ activeEngines'[KeyOf(q)].engine = q ]_vars

\* the step is a read of the entry under key k: a stream request is served
\* under it, a progress report arrives for its content, or a client streaming
\* under it disconnects
ReadOf(k) ==
    \/ \E r \in Reqs :
           /\ req[r].kind = "stream"
           /\ ~HeadersSent(r)
           /\ req'[r].rs.open
           /\ StreamId(req[r].magnet, req[r].fileIndex) = k
    \/ \E r \in Reqs :
           /\ ActiveRead(r)
           /\ req'[r].conn = "closed"
           /\ k \in DOMAIN activeEngines
           /\ activeEngines[k].engine = r
    \/ /\ k \in DOMAIN activeEngines
       /\ posted'[MagnetOf(k)] # posted[MagnetOf(k)]

\* C27: lastAccess is refreshed on every read.  After a step that serves a
\* stream request from an entry, reports progress for it or disconnects a
\* client from it, the entry is in the registry with lastAccess the current
\* time.
C27_LastAccessRefreshed ==
    [][ \A k \in DOMAIN activeEngines \cup DOMAIN activeEngines' :
            ReadOf(k) => /\ k \in DOMAIN activeEngines'
                         /\ activeEngines'[k].lastAccess = now ]_vars

\* C30: no handler of an info request writes a response after headers were
\* sent.  Writing then throws and ends the process, so while the response of
\* the one info request has been sent no step is such an exit.
C30_OneResponseAttempt ==
    [][ \A r \in Reqs :
            (req[r].kind = "info" /\ HeadersSent(r)) => crashed' = crashed ]_vars

\* the info-hash of a magnet string: the hash ahead of the parameters, in
\* lower case
HashOf(m) ==
    LET amp == {i \in 1..Len(m) : m[i] = "&"}
        stop == IF amp = {} THEN Len(m) + 1
                ELSE CHOOSE i \in amp : \A j \in amp : i <= j
    IN  ToLowerCase(SubSeq(m, 1, stop - 1))

\* C23: the registry key is the canonical info-hash.  Two stream requests for
\* the same file whose magnet strings carry the same info-hash, whatever their
\* letter case and parameters, store their engines under the same key.
C23_KeyIsInfoHash ==
    \A r, q \in Reqs :
        ( /\ ServedFile(r) /\ ServedFile(q)
          /\ HashOf(req[r].magnet) = HashOf(req[q].magnet)
          /\ req[r].fileIndex = req[q].fileIndex )
        => KeyOf(r) = KeyOf(q)

\* C28: info/stream index round trip.  Every file listed in a 200 info
\* response carries the position it has in the engine's full file list, and a
\* stream request for the same magnet that puts a listed index in its URL is
\* served that file: the file the handler picks has the listed name and
\* length, and the full response carries that length and reads those bytes.
C28_IndexRoundTrip ==
    \A i, s \in Reqs :
        (req[i].kind = "info" /\ req[i].res.status = 200) =>
            \A n \in 1..Len(req[i].res.files) :
                LET f == req[i].res.files[n]
                    all == EngineFiles(req[i].magnet)
                IN  /\ f.index + 1 \in 1..Len(all)
                    /\ all[f.index + 1].name = f.name
                    /\ all[f.index + 1].length = f.length
                    /\ ( /\ req[s].kind = "stream"
                         /\ req[s].magnet = req[i].magnet
                         /\ req[s].param = NatToStr(f.index)
                         /\ req[s].eng = "ready" )
                       => /\ req[s].res.status = 200
                          /\ req[s].res.contentLength = Num(f.length)
                          /\ req[s].rs.start = Num(0)
                          /\ req[s].rs.end = Num(f.length - 1)
                          /\ FileAt(req[s].magnet, req[s].fileIndex).name = f.name

\* an info response lists s.MKV, the third file of a torrent whose second file
\* is no video, and a stream request for the listed index is being served
C28_Witness ==
    \E i, s \in Reqs :
        /\ req[i].kind = "info" /\ req[i].res.status = 200
        /\ req[s].kind = "stream" /\ req[s].magnet = req[i].magnet
        /\ req[s].param = <<"2">>
        /\ req[s].res.status = 200
        /\ \E n \in 1..Len(req[i].res.files) : req[i].res.files[n].index = 2

\* C24: on SIGTERM or SIGINT every engine live at that moment is closed before
\* the process exits: once the process has exited through the shutdown handler
\* no engine is left that was opened and never destroyed.
C24_ShutdownClosesEngines ==
    shutdown = "exited" => \A r \in Reqs : ~Live(r)

\* C26: admin setup is first-time only.  Whatever the register-admin requests
\* and their interleaving, at most one of them has created an admin, the table
\* holds at most one admin, and a request that arrived when an admin existed
\* was answered 403.
C26_OneAdminOnly ==
    /\ Cardinality({a \in Regs : auth.reg[a].status = 200}) <= 1
    /\ Cardinality(auth.admins) <= 1
    /\ \A a \in Regs : auth.reg[a].existed => auth.reg[a].status = 403

\* C29: database initialisation retries and terminates.  init makes at most
\* 10 attempts, consecutive attempts start at least 5 seconds apart, it
\* returns only from an attempt in which the PostgreSQL connect, the schema
\* initialisation and the Redis connect all succeeded, and it throws only the
\* error of a failed 10th attempt.
C29_InitRetries ==
    [][ /\ db'.attempt <= 10
        /\ (db.attempt >= 1 /\ db'.attempt # db.attempt) =>
               /\ db'.attempt = db.attempt + 1
               /\ db'.startedAt >= db.startedAt + 5
        /\ (db.phase # "done" /\ db'.phase = "done") =>
               db'.did = {"pg", "schema", "redis"}
        /\ (db.phase # "failed" /\ db'.phase = "failed") =>
               /\ db'.attempt = 10
               /\ db'.error \in {"pg", "schema", "redis"} \ db'.did ]_vars

\* C25: when the player's server-side attempt fails (an info response that
\* is not 2xx, a network error, the 10 s abort, an empty file list), the player
\* starts WebTorrent, once; after startStreaming has sent the info fetch it
\* ends with exactly one of the two strategies started, the pending fetch
\* always has its abort timer ahead, and WebTorrent never starts once the
\* server stream has been set up
ServerInfoUsable ==
    /\ player.direct = 0
    /\ player.slot # 0
    /\ req[player.slot].res.status \in 200..299
    /\ Len(req[player.slot].res.files) > 0

C25_PlayerFallsBackOnce ==
    [][ /\ player'.webtorrents <= 1
        /\ player'.setups + player'.webtorrents <= 1
        /\ player'.phase = "fetching" =>
               /\ player'.abortAt # NoTimer
               /\ player'.abortAt >= now'
        /\ (player.phase = "fetching" /\ player'.phase # "fetching") =>
               \/ /\ player'.phase = "server"
                  /\ ServerInfoUsable
                  /\ player'.setups = 1
                  /\ player'.webtorrents = 0
               \/ /\ player'.phase = "webtorrent"
                  /\ player'.webtorrents = 1
                  /\ player'.setups = 0
        /\ player.phase \in {"server", "webtorrent"} =>
               /\ player'.phase = player.phase
               /\ player'.webtorrents = player.webtorrents
               /\ player'.setups = player.setups ]_vars

\* the player has fallen back to WebTorrent because the service listed no
\* video file, and the abort timer was cleared
C25_Witness ==
    /\ player.phase = "webtorrent"
    /\ player.error = "empty"
    /\ player.webtorrents = 1
    /\ player.setups = 0
    /\ req[player.slot].res.status = 200

\* a timer or an entry of the map that will destroy the engine of request r
\* is still pending when the clock of the model ends
DestroyPending(r) ==
    /\ now = MaxTime
    /\ \/ req[r].timeout # NoTimer
       \/ req[r].linger # NoTimer
       \/ \E k \in DOMAIN activeEngines : activeEngines[k].engine = r

\* C31: every engine opened by a request is destroyed in the end (or the
\* process has exited, or the clock of the model has ended with the timer or
\* the map entry that destroys it still pending), when timers fire and
\* clients disconnect
C31_NoEngineLeak ==
    \A r \in Reqs : Live(r) ~> (~Live(r) \/ crashed \/ DestroyPending(r))

\* C32: every 206 response is framed consistently, whatever the Range header:
\* Content-Range reads "bytes s-e/total" for integers 0 <= s <= e <= total - 1,
\* and Content-Length is a number from 1 to total.
C32_RangeFraming ==
    \A r \in Reqs :
        (req[r].kind = "stream" /\ req[r].res.status = 206) =>
            LET total == TotalOf(r)
            IN  /\ \E s \in 0..(total - 1), e \in 0..(total - 1) :
                       /\ s <= e
                       /\ req[r].res.contentRange =
                              <<"b", "y", "t", "e", "s", " ">> \o NatToStr(s)
                                  \o <<"-">> \o NatToStr(e) \o <<"/">>
                                  \o NatToStr(total)
                /\ ~req[r].res.contentLength.nan
                /\ req[r].res.contentLength.v >= 1
                /\ req[r].res.contentLength.v <= total

\* C33: the active-engine map never holds an entry whose engine has been
\* destroyed, after any sequence of stream-ready, client-close and sweep
\* events: whatever destroys a tracked engine removes its entry.
C33_NoDestroyedEngineInMap ==
    \A k \in DOMAIN activeEngines : ~req[activeEngines[k].engine].destroyed

\* C33 happens: of two streams under one key, the one whose engine the map
\* does not hold has been destroyed by its close listener, and the map holds
\* the other's live engine under another key or the same
C33_Witness ==
    \E r, q \in Reqs :
        /\ r # q
        /\ req[r].closeListener
        /\ req[r].destroyed
        /\ \E k \in DOMAIN activeEngines : activeEngines[k].engine = q

\* C34: once a save, complete or delete of a user's watch time has returned,
\* a later GET of that watch time returns what the table holds: a GET during
\* which no write of that user's watch time was in progress answers the
\* user's row, under every interleaving of earlier GETs with the write.
C34_WatchTimeCoherent ==
    [][ \A a \in WatchReqs :
          ( /\ watch.req[a].kind = "get"
            /\ watch.req[a].quiet
            /\ watch.req[a].status = 0
            /\ watch'.req[a].status = 200 )
          => watch'.req[a].watchTime =
                 WatchTimeOf(watch.table[watch.req[a].user]) ]_vars

\* the rows user u's watch time has held: none, and those u's writes made
OwnRows(u) ==
    {NoRow} \cup
        {watch.req[b].row :
            b \in {c \in WatchReqs :
                      /\ watch.req[c].user = u
                      /\ watch.req[c].kind \in {"save", "complete", "delete"}
                      /\ watch.req[c].pc \in {"del", "done"}}}

\* C35: the watchProgress GET /api/movies/:id returns to a user depends only
\* on that user's own watch-time record: it is the progress of a row the
\* user's own record has held, whatever other users have saved or requested.
C35_OwnWatchProgressOnly ==
    [][ \A a \in WatchReqs :
          ( /\ watch.req[a].kind = "movie"
            /\ watch.req[a].status = 0
            /\ watch'.req[a].status = 200 )
          => watch'.req[a].watchTime \in
                 {WatchProgressOf(row) : row \in OwnRows(watch.req[a].user)} ]_vars

\* C36: a request reaches the handler of a user-authenticated route only if
\* its token verified when it arrived (signed with the secret, not expired)
\* and the user it names exists and is active when the handler is reached;
\* every other request is answered
\* 401 by userAuth without running the handler, so a request sent with the
\* token of a deactivated or deleted user never runs it.
C36_HandlerOnlyForActiveUser ==
    [][ \A s \in AuthReqs :
          /\ (session.req[s].pc = "none" /\ session'.req[s].pc = "query") =>
                 /\ session'.req[s].token.signed
                 /\ session'.req[s].token \in session.tokens
                 /\ session'.req[s].token \notin session.expired
          /\ (~session.req[s].handler /\ session'.req[s].handler) =>
                 /\ session.req[s].pc = "query"
                 /\ session.users[session.req[s].token.userId] = "active"
                 /\ session'.req[s].status = 0
          /\ (session.req[s].pc # "done" /\ session'.req[s].pc = "done"
                  /\ ~session'.req[s].handler) =>
                 session'.req[s].status = 401
          /\ session.req[s].status = 401 => ~session'.req[s].handler ]_vars

\* C36 happens: a request with the still-unexpired token of a user who has
\* been deactivated or deleted since the login is answered 401 by userAuth,
\* after another request with the same token has run its handler
C36_Witness ==
    \E s, q \in AuthReqs :
        /\ session.req[q].handler
        /\ session.req[s].token = session.req[q].token
        /\ session.req[s].token.role = "user"
        /\ session.req[s].token \notin session.expired
        /\ session.users[session.req[s].token.userId] \in {"inactive", "deleted"}
        /\ session.req[s].status = 401
        /\ ~session.req[s].handler

\* C37: the main server's listen is called only after db.init() has
\* succeeded; when db.init() fails the process exits with code 1 and listen
\* was never called; the torrent proxy is started only after the main
\* server's listen call; and a step in which the torrent proxy fails to
\* start leaves the process running.
C37_StartupOrder ==
    [][ /\ startup'.main # "none" => db'.phase = "done"
        /\ db'.phase = "failed" =>
               /\ startup'.main = "none"
               /\ startup'.exit \in {0 - 1, 1}
        /\ startup'.proxy # "none" => startup'.main # "none"
        /\ (startup.proxy # "failed" /\ startup'.proxy = "failed") =>
               startup'.exit = startup.exit ]_vars

\* C38: at most one progress timer is pending at any time; a progress POST
\* carries the value of the most recent call of sendWatchProgressDebounced
\* and is sent 5 seconds after that call; and once closePlayer has run no
\* progress timer fires.
C38_DebouncedProgress ==
    [][ /\ Cardinality(debounce'.timers) <= 1
        /\ \A p \in debounce'.sent \ debounce.sent :
               /\ p.progress = debounce.last
               /\ p.at = debounce.lastAt + 5
               /\ debounce.open
        /\ ~debounce.open => debounce'.sent = debounce.sent ]_vars

\* C38 happens: three calls at different times have led to a single POST,
\* sent 5 seconds after the last of them, and no timer is left
C38_Witness ==
    /\ debounce.calls = 3
    /\ Cardinality(debounce.sent) = 1
    /\ \E p \in debounce.sent : p.at = debounce.lastAt + 5 /\ p.at > 5
    /\ debounce.timers = {}

====
